---- MODULE Spec2Model ----
(***************************************************************************)
(* Deployment tracking and artifact correlation of the OpenScan Hardhat    *)
(* plugin: the DeploymentTracker (deployment-tracker.ts), the structured   *)
(* deployment reader (artifacts.ts) and the artifact loader composed in    *)
(* createOpenscanServer (server.ts).                                       *)
(*                                                                         *)
(* A JavaScript string is a sequence of tokens (one-character strings, or  *)
(* a word that no operation here looks inside).  A JSON                    *)
(* value is a record [kind, val]: kind "absent" (the property is not       *)
(* there, undefined), "null" (present and falsy: null, 0, false), "string" *)
(* (val is the string, "" is falsy) or "other" (a truthy value that is not *)
(* a string: an array, an object, a number; val names it).                 *)
(***************************************************************************)
EXTENDS Integers, Sequences, FiniteSets, TLC

VARIABLES
    artifactsDir,        \* disk: <projectRoot>/artifacts/contracts, "missing" or a directory
    sourceFile,          \* disk: status of <projectRoot>/contracts/A.sol
    buildInfoFile,       \* disk: status of <projectRoot>/artifacts/build-info/b1.json
    ignition,            \* disk: ignition/deployments/chain-31337
    compiledArtifacts,   \* DeploymentTracker.compiledArtifacts
    pendingTxs,          \* DeploymentTracker.pendingTxs
    trackedDeployments,  \* DeploymentTracker.trackedDeployments: key -> object reference
    heap,                \* the ArtifactData objects the references point to
    hasLoggedArtifacts,  \* artifacts.ts module-level flag
    foundLogs,           \* number of "Found Ignition deployment" lines logged
    returned,            \* the object a caller got from getArtifacts() and still holds
    last,                \* the last call: its name, arguments, and outcome
    lastSend,            \* the last trackSendTransaction call and the data it replaced
    webappStarted,       \* network hook module: webappStarted
    webappServer,        \* network hook module: webappServer, "null" or "server"
    tracker,             \* network hook module: tracker, "null" or "tracker"
    cleanupInProgress,   \* network hook module: cleanupInProgress
    webappService,       \* createOpenscanServer: webappService, "null" or "service"
    server,              \* WebappService.server: "null", "created", "listening", "closing"
    connections,         \* WebappService.connections
    pc,                  \* where each newConnection call and each signal handler is
    result,              \* what each newConnection call gave its caller
    portAvailable,       \* startWebapp: portAvailable, once isPortAvailable answered
    portBusy,            \* another process listens on port 3030
    exited,              \* process.exit was called
    stopCalls,           \* number of WebappService.stop calls made
    request              \* the last JSON-RPC request onRequest handled, with its response

\* the state of the network hook module, the server and the process
plugin == <<webappStarted, webappServer, tracker, cleanupInProgress, webappService, server,
            connections, pc, result, portAvailable, portBusy, exited, stopCalls>>

vars == <<artifactsDir, sourceFile, buildInfoFile, ignition, compiledArtifacts,
          pendingTxs, trackedDeployments, heap, hasLoggedArtifacts, foundLogs,
          returned, last, lastSend, request, plugin>>

\* newConnection calls and signal deliveries
Hooks == {"h1", "h2"}
Signals == {"SIGINT", "SIGTERM"}
Conns == {"c1", "c2"}

\* no request handled yet
NoRequest == [method |-> "none"]

\* no trackSendTransaction call yet
NoSend == [tx |-> "", data |-> <<>>, had |-> FALSE, old |-> <<>>]

\* the module as loaded: nothing started, no hook called, no signal delivered
PluginLoaded ==
    /\ webappStarted = FALSE
    /\ webappServer = "null"
    /\ tracker = "null"
    /\ cleanupInProgress = FALSE
    /\ webappService = "null"
    /\ server = "null"
    /\ connections = {}
    /\ pc = [p \in Hooks \cup Signals |-> "none"]
    /\ result = [h \in Hooks |-> "pending"]
    /\ portAvailable = "unchecked"
    /\ exited = FALSE
    /\ stopCalls = 0

(***************************************************************************)
(* Bounds of the model.                                                    *)
(***************************************************************************)
MaxArtifacts == 2    \* artifact files of the project the tracker is built on
MaxRecords == 1      \* address entries, and artifact files, of the ignition deployment
MaxFiles == 2        \* files of a scanned directory tree
MaxDepth == 1        \* nesting depth of a scanned directory tree
MaxSuffix == 1       \* characters appended to a bytecode as constructor arguments
MaxPush == 1         \* elements a caller appends to a deployments list it got

(***************************************************************************)
(* Strings.                                                                *)
(***************************************************************************)
UpperChars == {"A", "B", "C", "D", "E", "F", "X"}

\* String.prototype.toLowerCase, one character
LowerChar(c) ==
    CASE c = "A" -> "a" [] c = "B" -> "b" [] c = "C" -> "c" [] c = "D" -> "d"
      [] c = "E" -> "e" [] c = "F" -> "f" [] c = "X" -> "x" [] OTHER -> c

\* the string as it is, its case kept
keepCase(s) == s

toLowerCase(s) == [i \in 1..Len(s) |-> LowerChar(s[i])]

startsWith(s, p) == Len(p) <= Len(s) /\ SubSeq(s, 1, Len(p)) = p

endsWith(s, p) == Len(p) <= Len(s) /\ SubSeq(s, Len(s) - Len(p) + 1, Len(s)) = p

HasUpper(s) == \E i \in 1..Len(s) : s[i] \in UpperChars

(***************************************************************************)
(* JSON values and JavaScript truthiness.                                  *)
(***************************************************************************)
Absent == [kind |-> "absent", val |-> <<>>]
JNull == [kind |-> "null", val |-> <<>>]
JStr(s) == [kind |-> "string", val |-> s]
JOther(id) == [kind |-> "other", val |-> <<id>>]

Truthy(v) == v.kind = "other" \/ (v.kind = "string" /\ v.val # <<>>)

(***************************************************************************)
(* Compiled artifact files: the JSON documents under artifacts/contracts.  *)
(* parse is "ok", "bad" (JSON.parse or readFileSync throws) or "null" (the *)
(* document is the JSON value null, so reading a property of it throws).   *)
(***************************************************************************)
Bc6a == <<"0", "x", "6", "a">>
Bc6A0 == <<"0", "x", "6", "A", "0">>
Bc0x == <<"0", "x">>
SrcA == <<"contracts", "/", "A.sol">>

Doc(p, name, src, abi, bc, bid) ==
    [parse |-> p, contractName |-> name, sourceName |-> src, abi |-> abi,
     bytecode |-> bc, buildInfoId |-> bid]

DocA == Doc("ok", JStr(<<"A">>), JStr(SrcA), JOther("abiA"), JStr(Bc6a), JStr(<<"b1">>))
DocB == Doc("ok", JStr(<<"B">>), Absent, JOther("abiB"), JStr(Bc6A0), Absent)
DocI == Doc("ok", JStr(<<"I">>), JStr(SrcA), JOther("abiI"), JStr(Bc0x), Absent)
DocN == Doc("ok", JStr(<<"N">>), Absent, JOther("abiN"), JOther("bytecodeObject"), Absent)
DocBad == Doc("bad", Absent, Absent, Absent, Absent, Absent)
DocNull == Doc("null", Absent, Absent, Absent, Absent, Absent)
DocNoName == Doc("ok", Absent, Absent, JOther("abiD"), JStr(Bc6a), Absent)
DocEmptyName == Doc("ok", JStr(<<>>), Absent, JOther("abiE"), JStr(Bc6a), Absent)
DocNoAbi == Doc("ok", JStr(<<"G">>), Absent, Absent, JStr(Bc6a), Absent)
DocNullAbi == Doc("ok", JStr(<<"H">>), Absent, JNull, JStr(Bc6a), Absent)
DocNoBytecode == Doc("ok", JStr(<<"J">>), Absent, JOther("abiJ"), Absent, Absent)
DocEmptyBytecode == Doc("ok", JStr(<<"K">>), Absent, JOther("abiK"), JStr(<<>>), Absent)

JsonSuffix == <<".json">>

File(base, suffix, doc) == [kind |-> "file", name |-> <<base>> \o suffix, doc |-> doc]
Dir(base, entries) == [kind |-> "dir", name |-> <<base>>, entries |-> entries]

\* the files a project's compiler output is made of
ProjectFiles ==
    { File("A", JsonSuffix, DocA), File("B", JsonSuffix, DocB),
      File("I", JsonSuffix, DocI), File("N", JsonSuffix, DocN) }

\* all the files a scanned tree is drawn from
ScanFiles ==
    ProjectFiles \cup
    { File("bad", JsonSuffix, DocBad), File("null", JsonSuffix, DocNull),
      File("A", <<".dbg", ".json">>, DocNoName), File("E", JsonSuffix, DocEmptyName),
      File("G", JsonSuffix, DocNoAbi), File("H", JsonSuffix, DocNullAbi),
      File("J", JsonSuffix, DocNoBytecode), File("K", JsonSuffix, DocEmptyBytecode),
      File("A", <<".txt">>, DocA) }

(***************************************************************************)
(* DeploymentTracker.scanDir / loadCompiledArtifacts                       *)
(***************************************************************************)
\* lines 45-61: what one *.json file pushes (nothing when the try block throws)
scanFile(doc) ==
    IF doc.parse # "ok" THEN <<>>
    ELSE IF Truthy(doc.contractName) /\ Truthy(doc.abi) /\ Truthy(doc.bytecode)
    THEN << [contractName |-> doc.contractName,
             sourceName |-> IF doc.sourceName.kind \in {"absent", "null"}
                            THEN JStr(<<>>) ELSE doc.sourceName,
             abi |-> doc.abi,
             bytecode |-> doc.bytecode,
             buildInfoId |-> doc.buildInfoId] >>
    ELSE <<>>

RECURSIVE scanDirFlat(_)
\* the scan without the descent into subdirectories
scanDirFlat(dir) ==
    IF dir = <<>> THEN <<>>
    ELSE LET entry == Head(dir)
         IN (IF entry.kind = "file" /\ endsWith(entry.name, JsonSuffix)
             THEN scanFile(entry.doc)
             ELSE <<>>) \o scanDirFlat(Tail(dir))

RECURSIVE scanDir(_)
scanDir(dir) ==
    IF dir = <<>> THEN <<>>
    ELSE LET entry == Head(dir)
         IN (IF entry.kind = "dir" THEN scanDir(entry.entries)
             ELSE IF endsWith(entry.name, JsonSuffix) THEN scanFile(entry.doc)
             ELSE <<>>) \o scanDir(Tail(dir))

\* root: [exists, entries], the directory <projectRoot>/artifacts/contracts
loadCompiledArtifacts(root) == IF ~root.exists THEN <<>> ELSE scanDir(root.entries)

(***************************************************************************)
(* DeploymentTracker: matching                                             *)
(***************************************************************************)
RECURSIVE findFromAnyLength(_, _, _)
\* the loop without the test of the bytecode's length
findFromAnyLength(arts, i, normalizedData) ==
    IF i > Len(arts) THEN [raised |-> FALSE, found |-> FALSE, index |-> 0]
    ELSE IF arts[i].bytecode.kind # "string"
    THEN [raised |-> TRUE, found |-> FALSE, index |-> i]
    ELSE IF startsWith(normalizedData, toLowerCase(arts[i].bytecode.val))
    THEN [raised |-> FALSE, found |-> TRUE, index |-> i]
    ELSE findFromAnyLength(arts, i + 1, normalizedData)

RECURSIVE findFromLast(_, _, _)
\* the loop going on after a match: the last matching artifact is the result
findFromLast(arts, i, normalizedData) ==
    IF i > Len(arts) THEN [raised |-> FALSE, found |-> FALSE, index |-> 0]
    ELSE IF arts[i].bytecode.kind # "string"
    THEN [raised |-> TRUE, found |-> FALSE, index |-> i]
    ELSE LET normalizedBytecode == toLowerCase(arts[i].bytecode.val)
             later == findFromLast(arts, i + 1, normalizedData)
         IN IF later.found \/ later.raised THEN later
            ELSE IF Len(normalizedBytecode) > 2 /\ startsWith(normalizedData, normalizedBytecode)
            THEN [raised |-> FALSE, found |-> TRUE, index |-> i]
            ELSE later

RECURSIVE findFromKeepsCase(_, _, _)
\* the loop comparing the bytecode as it is written, without toLowerCase
findFromKeepsCase(arts, i, normalizedData) ==
    IF i > Len(arts) THEN [raised |-> FALSE, found |-> FALSE, index |-> 0]
    ELSE IF arts[i].bytecode.kind # "string"
    THEN [raised |-> TRUE, found |-> FALSE, index |-> i]
    ELSE IF Len(arts[i].bytecode.val) > 2 /\ startsWith(normalizedData, arts[i].bytecode.val)
    THEN [raised |-> FALSE, found |-> TRUE, index |-> i]
    ELSE findFromKeepsCase(arts, i + 1, normalizedData)

\* the loop of findMatchingArtifact from artifact i on.  A bytecode that is
\* not a string has no toLowerCase method: the call throws a TypeError.
RECURSIVE findFrom(_, _, _)
findFrom(arts, i, normalizedData) ==
    IF i > Len(arts) THEN [raised |-> FALSE, found |-> FALSE, index |-> 0]
    ELSE IF arts[i].bytecode.kind # "string"
    THEN [raised |-> TRUE, found |-> FALSE, index |-> i]
    ELSE LET normalizedBytecode == toLowerCase(arts[i].bytecode.val)
         IN IF Len(normalizedBytecode) > 2 /\ startsWith(normalizedData, normalizedBytecode)
            THEN [raised |-> FALSE, found |-> TRUE, index |-> i]
            ELSE findFrom(arts, i + 1, normalizedData)

findMatchingArtifact(arts, creationData) == findFrom(arts, 1, toLowerCase(creationData))

(***************************************************************************)
(* Maps (JavaScript objects and Map) are functions on the set of their     *)
(* keys.                                                                   *)
(***************************************************************************)
EmptyMap == <<>>
Put(m, k, v) == [x \in DOMAIN m \cup {k} |-> IF x = k THEN v ELSE m[x]]
Remove(m, k) == [x \in DOMAIN m \ {k} |-> m[x]]
Range(m) == {m[x] : x \in DOMAIN m}
\* { ...b, ...a }: the operands swapped, a's properties win
SpreadSwapped(a, b) ==
    [x \in DOMAIN a \cup DOMAIN b |-> IF x \in DOMAIN a THEN a[x] ELSE b[x]]

\* { ...a, ...b }: b's properties overwrite a's
Spread(a, b) == [x \in DOMAIN a \cup DOMAIN b |-> IF x \in DOMAIN b THEN b[x] ELSE a[x]]

(***************************************************************************)
(* DeploymentTracker: the ArtifactData entry of a matched deployment       *)
(***************************************************************************)
RECURSIVE lastSegment(_)
\* sourceName.split("/").pop()
lastSegment(s) ==
    IF \A i \in 1..Len(s) : s[i] # "/" THEN s
    ELSE lastSegment(Tail(s))

\* lines 96-112: sourceCode, when contracts/<file> exists and can be read
sourceCodeOf(artifact) ==
    IF ~Truthy(artifact.sourceName) THEN Absent
    ELSE LET sourceFileName == lastSegment(artifact.sourceName.val)
         IN IF sourceFileName = <<>> THEN Absent
            ELSE IF sourceFileName = <<"A.sol">> /\ sourceFile = "present"
            THEN JStr(<<"source of A.sol">>)
            ELSE Absent

\* lines 115-129: buildInfo, when artifacts/build-info/<id>.json exists and parses
buildInfoOf(artifact) ==
    IF ~Truthy(artifact.buildInfoId) THEN Absent
    ELSE IF artifact.buildInfoId = JStr(<<"b1">>) /\ buildInfoFile = "present"
    THEN JOther("build info b1")
    ELSE Absent

\* lines 87-129
newEntry(artifact, contractAddress) ==
    [abi |-> artifact.abi,
     contractName |-> artifact.contractName,
     sourceName |-> artifact.sourceName,
     buildInfoId |-> artifact.buildInfoId,
     deployments |-> <<contractAddress>>,
     sourceCode |-> sourceCodeOf(artifact),
     buildInfo |-> buildInfoOf(artifact)]

(***************************************************************************)
(* Objects.  trackedDeployments and a map a caller got from getArtifacts() *)
(* hold references; heap maps each referenced object to its ArtifactData.  *)
(***************************************************************************)
\* a fresh object: the least identity not in use
NewId(h) == CHOOSE i \in 1..(Cardinality(DOMAIN h) + 1) :
                /\ i \notin DOMAIN h
                /\ \A j \in 1..(i - 1) : j \in DOMAIN h

\* objects nobody references any more are dropped
Collect(h, tracked, ret) ==
    [i \in (DOMAIN h) \cap (Range(tracked) \cup Range(ret)) |-> h[i]]

\* the ArtifactData values a map of references denotes
Deref(m, h) == [k \in DOMAIN m |-> h[m[k]]]

(***************************************************************************)
(* DeploymentTracker: public operations                                    *)
(***************************************************************************)
\* last.outcome is the path the call took: "ok", or for a receipt "unknown"
\* (line 81 returned), "raised" (findMatchingArtifact threw), "nomatch" (line 85
\* returned) or "stored" (line 131 ran).
Called(name, txHash, contractAddress, how) ==
    [op |-> name, tx |-> txHash, addr |-> contractAddress, outcome |-> how]

\* the send handler dropping what was pending before
trackSendTransactionResets(txHash, data) ==
    /\ pendingTxs' = Put(EmptyMap, txHash, data)
    /\ last' = Called("send", txHash, <<>>, "ok")
    /\ UNCHANGED <<trackedDeployments, heap>>

\* the send handler keeping the data a hash already has
trackSendTransactionFirstWins(txHash, data) ==
    /\ pendingTxs' = IF txHash \in DOMAIN pendingTxs THEN pendingTxs
                                                     ELSE Put(pendingTxs, txHash, data)
    /\ last' = Called("send", txHash, <<>>, "ok")
    /\ UNCHANGED <<trackedDeployments, heap>>

trackSendTransaction(txHash, data) ==
    /\ pendingTxs' = Put(pendingTxs, txHash, data)
    /\ last' = Called("send", txHash, <<>>, "ok")
    /\ UNCHANGED <<trackedDeployments, heap>>

\* the receipt handler without line 81: the lookup of an unknown hash goes on to
\* findMatchingArtifact(undefined), which throws
trackDeploymentReceiptUnguarded(txHash, contractAddress) ==
    /\ pendingTxs' = Remove(pendingTxs, txHash)
    /\ last' = Called("receipt", txHash, contractAddress, "raised")
    /\ UNCHANGED <<trackedDeployments, heap>>

\* the receipt handler deleting the pending entry only once an artifact matched
trackDeploymentReceiptKeepsPending(txHash, contractAddress) ==
    LET has == txHash \in DOMAIN pendingTxs
        data == IF has THEN pendingTxs[txHash] ELSE <<>>
        m == findMatchingArtifact(compiledArtifacts, data)
        id == NewId(heap)
        tracked2 == Put(trackedDeployments, toLowerCase(contractAddress), id)
    IN  IF ~has \/ data = <<>>
        THEN /\ UNCHANGED <<pendingTxs, trackedDeployments, heap>>
             /\ last' = Called("receipt", txHash, contractAddress, "unknown")
        ELSE IF ~m.found
        THEN /\ UNCHANGED <<pendingTxs, trackedDeployments, heap>>
             /\ last' = Called("receipt", txHash, contractAddress,
                               IF m.raised THEN "raised" ELSE "nomatch")
        ELSE /\ pendingTxs' = Remove(pendingTxs, txHash)
             /\ trackedDeployments' = tracked2
             /\ heap' = Collect(Put(heap, id, newEntry(compiledArtifacts[m.index],
                                                        contractAddress)),
                                tracked2, returned)
             /\ last' = Called("receipt", txHash, contractAddress, "stored")

\* the receipt handler scanning the artifacts directory anew for its match
trackDeploymentReceiptRescans(txHash, contractAddress) ==
    LET has == txHash \in DOMAIN pendingTxs
        data == IF has THEN pendingTxs[txHash] ELSE <<>>
        onDisk == loadCompiledArtifacts(artifactsDir)
    IN  IF ~has \/ data = <<>>
        THEN /\ UNCHANGED <<pendingTxs, trackedDeployments, heap>>
             /\ last' = Called("receipt", txHash, contractAddress, "unknown")
        ELSE LET m == findMatchingArtifact(onDisk, data)
                 id == NewId(heap)
                 tracked2 == Put(trackedDeployments, toLowerCase(contractAddress), id)
             IN  /\ pendingTxs' = Remove(pendingTxs, txHash)
                 /\ IF m.found
                    THEN /\ trackedDeployments' = tracked2
                         /\ heap' = Collect(
                                Put(heap, id, newEntry(onDisk[m.index], contractAddress)),
                                tracked2, returned)
                    ELSE UNCHANGED <<trackedDeployments, heap>>
                 /\ last' = Called("receipt", txHash, contractAddress,
                                   IF m.raised THEN "raised"
                                   ELSE IF m.found THEN "stored" ELSE "nomatch")

\* the receipt handler clearing the pending map instead of deleting one hash
trackDeploymentReceiptClearsPending(txHash, contractAddress) ==
    LET has == txHash \in DOMAIN pendingTxs
        data == IF has THEN pendingTxs[txHash] ELSE <<>>
    IN  IF ~has \/ data = <<>>
        THEN /\ UNCHANGED <<pendingTxs, trackedDeployments, heap>>
             /\ last' = Called("receipt", txHash, contractAddress, "unknown")
        ELSE LET m == findMatchingArtifact(compiledArtifacts, data)
                 id == NewId(heap)
                 tracked2 == Put(trackedDeployments, toLowerCase(contractAddress), id)
             IN  /\ pendingTxs' = EmptyMap
                 /\ IF m.found
                    THEN /\ trackedDeployments' = tracked2
                         /\ heap' = Collect(
                                Put(heap, id, newEntry(compiledArtifacts[m.index],
                                                       contractAddress)),
                                tracked2, returned)
                    ELSE UNCHANGED <<trackedDeployments, heap>>
                 /\ last' = Called("receipt", txHash, contractAddress,
                                   IF m.raised THEN "raised"
                                   ELSE IF m.found THEN "stored" ELSE "nomatch")

trackDeploymentReceipt(txHash, contractAddress) ==
    LET has == txHash \in DOMAIN pendingTxs
        data == IF has THEN pendingTxs[txHash] ELSE <<>>
    IN  IF ~has \/ data = <<>>                       \* if (!data) return
        THEN /\ UNCHANGED <<pendingTxs, trackedDeployments, heap>>
             /\ last' = Called("receipt", txHash, contractAddress, "unknown")
        ELSE LET m == findMatchingArtifact(compiledArtifacts, data)
                 id == NewId(heap)
                 tracked2 == Put(trackedDeployments, toLowerCase(contractAddress), id)
             IN  /\ pendingTxs' = Remove(pendingTxs, txHash)
                 /\ IF m.found
                    THEN /\ trackedDeployments' = tracked2
                         /\ heap' = Collect(
                                Put(heap, id, newEntry(compiledArtifacts[m.index],
                                                       contractAddress)),
                                tracked2, returned)
                    ELSE UNCHANGED <<trackedDeployments, heap>>
                 /\ last' = Called("receipt", txHash, contractAddress,
                                   IF m.raised THEN "raised"
                                   ELSE IF m.found THEN "stored" ELSE "nomatch")

\* { ...this.trackedDeployments }: a new object with the same references
getArtifacts == trackedDeployments

(***************************************************************************)
(* artifacts.ts: the structured deployment record set on disk.             *)
(*   ignition.root       ignition/deployments/chain-31337 exists           *)
(*   ignition.addresses  deployed_addresses.json: "missing", "invalid"     *)
(*                       (reading or parsing it throws), "null" (the JSON  *)
(*                       value null) or "ok"                               *)
(*   ignition.entries    its properties in order: [key, value]             *)
(*   ignition.artifacts  the artifacts directory: [exists, files]          *)
(*   ignition.buildInfo  status of build-info/b1.json                      *)
(***************************************************************************)
\* moduleContract.split("#")[1]: undefined (Absent) without a "#"
secondSegment(s) ==
    IF \A i \in 1..Len(s) : s[i] # "#" THEN Absent
    ELSE LET i == CHOOSE x \in 1..Len(s) : s[x] = "#" /\ \A y \in 1..(x - 1) : s[y] # "#"
             rest == SubSeq(s, i + 1, Len(s))
         IN IF \A j \in 1..Len(rest) : rest[j] # "#" THEN JStr(rest)
            ELSE LET n == CHOOSE x \in 1..Len(rest) :
                              rest[x] = "#" /\ \A y \in 1..(x - 1) : rest[y] # "#"
                 IN JStr(SubSeq(rest, 1, n - 1))

RECURSIVE contractDeploymentsOf(_, _)
\* lines 66-72: contract name -> address, a later property overwriting an earlier
contractDeploymentsOf(entries, acc) ==
    IF entries = <<>> THEN acc
    ELSE LET contractName == secondSegment(Head(entries).key)
         IN contractDeploymentsOf(Tail(entries),
                IF Truthy(contractName) THEN Put(acc, contractName.val, Head(entries).value)
                ELSE acc)

\* lines 117-132
ignitionBuildInfo(buildInfoId) ==
    IF Truthy(buildInfoId) /\ buildInfoId = JStr(<<"b1">>) /\ ignition.buildInfo = "present"
    THEN JOther("build info b1")
    ELSE Absent

\* lines 134-147
ignitionSourceCode(sourceName) ==
    IF ~Truthy(sourceName) THEN Absent
    ELSE LET sourceFileName == lastSegment(sourceName.val)
         IN IF sourceFileName = <<"A.sol">> /\ sourceFile = "present"
            THEN JStr(<<"source of A.sol">>)
            ELSE Absent

RECURSIVE loadFiles(_, _, _)
\* lines 91-151: the loop over the artifact files; [raised, map]
loadFiles(files, contractDeployments, addressMap) ==
    IF files = <<>> THEN [raised |-> FALSE, map |-> addressMap]
    ELSE LET artifact == Head(files).doc
             next == loadFiles(Tail(files), contractDeployments, addressMap)
         IN  IF artifact.parse = "bad" THEN next                     \* catch: continue
             ELSE IF artifact.parse = "null"                         \* null.contractName
             THEN [raised |-> TRUE, map |-> addressMap]
             ELSE IF ~Truthy(artifact.contractName) THEN next
             ELSE IF artifact.contractName.kind # "string"
                     \/ artifact.contractName.val \notin DOMAIN contractDeployments
             THEN next
             ELSE LET deployedAddress == contractDeployments[artifact.contractName.val]
                  IN IF ~Truthy(deployedAddress) THEN next
                     ELSE IF deployedAddress.kind # "string"         \* line 150 throws
                     THEN [raised |-> TRUE, map |-> addressMap]
                     ELSE loadFiles(Tail(files), contractDeployments,
                              Put(addressMap, toLowerCase(deployedAddress.val),
                                  [abi |-> IF Truthy(artifact.abi) THEN artifact.abi
                                           ELSE JOther("[]"),
                                   contractName |-> artifact.contractName,
                                   sourceName |-> artifact.sourceName,
                                   buildInfoId |-> artifact.buildInfoId,
                                   deployments |-> <<deployedAddress.val>>,
                                   sourceCode |-> ignitionSourceCode(artifact.sourceName),
                                   buildInfo |-> ignitionBuildInfo(artifact.buildInfoId)]))

\* the addresses file exists
HasAddresses == ignition.root /\ ignition.addresses # "missing"

\* loadArtifacts(deploymentPath, projectRoot): [raised, map]
loadArtifacts ==
    IF ~HasAddresses THEN [raised |-> FALSE, map |-> EmptyMap]
    ELSE IF ignition.addresses \in {"invalid", "null"}   \* JSON.parse / Object.entries throws
    THEN [raised |-> TRUE, map |-> EmptyMap]
    ELSE IF ~ignition.artifacts.exists THEN [raised |-> FALSE, map |-> EmptyMap]
    ELSE loadFiles(SelectSeq(ignition.artifacts.files,
                             LAMBDA f : endsWith(f.name, JsonSuffix)),
                   contractDeploymentsOf(ignition.entries, EmptyMap), EmptyMap)

\* findIgnitionDeployment(projectRoot): the deployment path is found
findIgnitionDeployment == HasAddresses

\* what a call returns: nothing when it raised, else null or a map
Returned(raised, null, map) ==
    [outcome |-> IF raised THEN "raised" ELSE "ok", null |-> null, map |-> map]

\* loadIgnitionArtifacts(projectRoot): its result, for the state before the call
loadIgnitionArtifactsResult ==
    IF ~findIgnitionDeployment THEN Returned(FALSE, TRUE, EmptyMap)
    ELSE Returned(loadArtifacts.raised, FALSE,
                  IF loadArtifacts.raised THEN EmptyMap ELSE loadArtifacts.map)

\* the announcement without the flag: logged by every call that finds the deployment
loadIgnitionArtifactsEffectEveryCall ==
    IF findIgnitionDeployment
    THEN foundLogs' = foundLogs + 1 /\ UNCHANGED hasLoggedArtifacts
    ELSE UNCHANGED <<hasLoggedArtifacts, foundLogs>>

\* loadIgnitionArtifacts(projectRoot): its effect on the module-level flag and the log
loadIgnitionArtifactsEffect ==
    IF findIgnitionDeployment /\ ~hasLoggedArtifacts
    THEN hasLoggedArtifacts' = TRUE /\ foundLogs' = foundLogs + 1
    ELSE UNCHANGED <<hasLoggedArtifacts, foundLogs>>

\* artifactLoader() returning the combined map whatever its size
artifactLoaderNeverNull ==
    LET loaded == loadIgnitionArtifactsResult
    IN  IF loaded.outcome = "raised" THEN Returned(TRUE, FALSE, EmptyMap)
        ELSE Returned(FALSE, FALSE,
                      Spread(IF loaded.null THEN EmptyMap ELSE loaded.map,
                             Deref(getArtifacts, heap)))

\* createOpenscanServer: artifactLoader()
artifactLoaderResult ==
    LET loaded == loadIgnitionArtifactsResult
        ignitionArtifacts == IF loaded.null THEN EmptyMap ELSE loaded.map
        trackedArtifacts == Deref(getArtifacts, heap)
        combined == Spread(ignitionArtifacts, trackedArtifacts)
    IN  IF loaded.outcome = "raised" THEN Returned(TRUE, FALSE, EmptyMap)
        ELSE IF Cardinality(DOMAIN combined) > 0 THEN Returned(FALSE, FALSE, combined)
        ELSE Returned(FALSE, TRUE, EmptyMap)


(***************************************************************************)
(* Inputs                                                                  *)
(***************************************************************************)
TxHashes == {"t1", "t2"}
Addresses == { <<"0", "x", "A", "b">>, <<"0", "x", "c", "d">> }

RECURSIVE SeqsUpTo(_, _)
\* the sequences over S of length at most n
SeqsUpTo(S, n) ==
    IF n = 0 THEN {<<>>}
    ELSE LET shorter == SeqsUpTo(S, n - 1)
         IN shorter \cup {Append(s, x) : s \in shorter, x \in S}

Injective(s) == \A i, j \in 1..Len(s) : i # j => s[i] # s[j]

\* creation data: "", and a bytecode followed by constructor arguments
DataSet ==
    {<<>>} \cup
    {b \o s : b \in {Bc0x, Bc6a, Bc6A0}, s \in SeqsUpTo({"f"}, MaxSuffix)}

\* the artifacts/contracts directory of a project: absent, or some artifact files
ProjectDirs ==
    {[exists |-> FALSE, entries |-> <<>>]} \cup
    {[exists |-> TRUE, entries |-> e] :
        e \in {s \in SeqsUpTo(ProjectFiles, MaxArtifacts) : Injective(s)}}

FileStatus == {"missing", "unreadable", "present"}
\* the two statuses that tell the enrichment's outcomes apart
SomeFileStatus == {"missing", "present"}

\* no ignition directory at all
NoIgnition ==
    [root |-> FALSE, addresses |-> "missing", entries |-> <<>>,
     artifacts |-> [exists |-> FALSE, files |-> <<>>], buildInfo |-> "missing"]

Addr0xAB == <<"0", "x", "A", "B">>
Addr0xEE == <<"0", "x", "E", "E">>

\* properties of deployed_addresses.json
IgnitionEntries ==
    { [key |-> <<"M", "#", "A">>, value |-> JStr(Addr0xAB)],
      [key |-> <<"M2", "#", "A">>, value |-> JStr(Addr0xEE)],
      [key |-> <<"B">>, value |-> JStr(Addr0xEE)],
      [key |-> <<"M", "#", "B">>, value |-> JOther("a number")] }

\* files of the ignition artifacts directory
IgnitionFiles ==
    { File("M#A", JsonSuffix, DocA), File("M#B", JsonSuffix, DocB),
      File("bad", JsonSuffix, DocBad), File("null", JsonSuffix, DocNull),
      File("M#B", <<".dbg">>, DocB) }

IgnitionDisks ==
    {NoIgnition} \cup
    {[NoIgnition EXCEPT !.root = TRUE, !.addresses = a] : a \in {"missing", "invalid", "null"}}
    \cup
    {[root |-> TRUE, addresses |-> "ok", entries |-> e, artifacts |-> d, buildInfo |-> b] :
        e \in {x \in SeqsUpTo(IgnitionEntries, MaxRecords) : Injective(x)},
        d \in {[exists |-> FALSE, files |-> <<>>]} \cup
              {[exists |-> TRUE, files |-> f] :
                  f \in {x \in SeqsUpTo(IgnitionFiles, MaxRecords) : Injective(x)}},
        b \in {"present"}}

(***************************************************************************)
(* The tracker alone: every call of its public operations.                 *)
(***************************************************************************)
Init ==
    /\ artifactsDir \in ProjectDirs
    /\ \E status \in {<<"present", "missing">>, <<"missing", "present">>} :
           sourceFile = status[1] /\ buildInfoFile = status[2]
    /\ ignition = NoIgnition
    /\ compiledArtifacts = loadCompiledArtifacts(artifactsDir)
    /\ pendingTxs = EmptyMap
    /\ trackedDeployments = EmptyMap
    /\ heap = EmptyMap
    /\ hasLoggedArtifacts = FALSE
    /\ foundLogs = 0
    /\ returned = EmptyMap
    /\ lastSend = NoSend
    /\ request = NoRequest
    /\ PluginLoaded /\ portBusy = FALSE
    /\ last = Called("new", "", <<>>, "ok")

disk == <<artifactsDir, sourceFile, buildInfoFile, ignition>>

Send ==
    /\ \E txHash \in TxHashes, data \in DataSet : trackSendTransaction(txHash, data)
    /\ UNCHANGED <<plugin, request, lastSend, disk, compiledArtifacts, hasLoggedArtifacts, foundLogs, returned>>

Receipt ==
    /\ \E txHash \in TxHashes, contractAddress \in Addresses :
           trackDeploymentReceipt(txHash, contractAddress)
    /\ UNCHANGED <<plugin, request, lastSend, disk, compiledArtifacts, hasLoggedArtifacts, foundLogs, returned>>

Next == Send \/ Receipt

Spec == Init /\ [][Next]_vars

(***************************************************************************)
(* Claims about the tracker.                                               *)
(***************************************************************************)
\* the step is a call trackDeploymentReceipt(txHash, contractAddress)
ReceiptStep(txHash, contractAddress) ==
    /\ last'.op = "receipt"
    /\ last'.tx = txHash
    /\ last'.addr = contractAddress

ArtifactsWithBytecode(d) ==
    {i \in 1..Len(compiledArtifacts) : compiledArtifacts[i].bytecode = JStr(d)}

\* every key but k is as it was
OthersUnchanged(k) ==
    /\ DOMAIN trackedDeployments' \ {k} = DOMAIN trackedDeployments \ {k}
    /\ \A x \in DOMAIN trackedDeployments \ {k} :
           Deref(getArtifacts, heap)'[x] = Deref(getArtifacts, heap)[x]

\* C1: a receipt for a transaction submitted with creation data equal to the
\* bytecode of exactly one compiled artifact leaves getArtifacts() with one entry
\* more, under lowercase(addr), with that artifact's contractName and abi and
\* deployments = [addr].
C1_SendThenReceiptTracks ==
    [][ \A txHash \in TxHashes, contractAddress \in Addresses :
          ( /\ ReceiptStep(txHash, contractAddress)
            /\ txHash \in DOMAIN pendingTxs
            /\ Cardinality(ArtifactsWithBytecode(pendingTxs[txHash])) = 1 )
          => LET k == toLowerCase(contractAddress)
                 a == compiledArtifacts[
                          CHOOSE i \in ArtifactsWithBytecode(pendingTxs[txHash]) : TRUE]
                 got == Deref(getArtifacts, heap)'
             IN  /\ k \in DOMAIN got
                 /\ got[k].contractName = a.contractName
                 /\ got[k].abi = a.abi
                 /\ got[k].deployments = <<contractAddress>>
                 /\ OthersUnchanged(k)
      ]_vars

\* C2: creation data b+s, for the bytecode b (more than 2 characters) of a
\* compiled artifact and any suffix s, is matched when its receipt arrives: an
\* entry is stored under the lowercased address.
C2_PrefixMatchStores ==
    [][ \A txHash \in TxHashes, contractAddress \in Addresses :
          ( /\ ReceiptStep(txHash, contractAddress)
            /\ txHash \in DOMAIN pendingTxs
            /\ \E i \in 1..Len(compiledArtifacts) :
                   /\ compiledArtifacts[i].bytecode.kind = "string"
                   /\ Len(compiledArtifacts[i].bytecode.val) > 2
                   /\ startsWith(pendingTxs[txHash], compiledArtifacts[i].bytecode.val) )
          => /\ last'.outcome = "stored"
             /\ toLowerCase(contractAddress) \in DOMAIN trackedDeployments'
             /\ Deref(getArtifacts, heap)'[toLowerCase(contractAddress)].deployments
                    = <<contractAddress>>
      ]_vars

\* C3: a receipt for a hash with no pending entry raises nothing and changes
\* neither the tracked deployments nor the pending transactions.
C3_UnknownReceiptIsNoOp ==
    [][ \A txHash \in TxHashes, contractAddress \in Addresses :
          (ReceiptStep(txHash, contractAddress) /\ txHash \notin DOMAIN pendingTxs)
          => /\ last'.outcome # "raised"
             /\ UNCHANGED <<trackedDeployments, pendingTxs, heap>>
      ]_vars

\* a receipt came for a hash that was consumed before, with deployments tracked
\* and another transaction still pending
C3_Witness ==
    /\ last.op = "receipt"
    /\ last.outcome = "unknown"
    /\ last.tx \notin DOMAIN pendingTxs
    /\ trackedDeployments # EmptyMap
    /\ pendingTxs # EmptyMap

\* the artifacts whose bytecode, a string of more than 2 characters, is a prefix
\* of the creation data d, letter case aside
Candidates(d) ==
    {i \in 1..Len(compiledArtifacts) :
        /\ compiledArtifacts[i].bytecode.kind = "string"
        /\ Len(compiledArtifacts[i].bytecode.val) > 2
        /\ startsWith(toLowerCase(d), toLowerCase(compiledArtifacts[i].bytecode.val))}

\* the artifacts whose bytecode is exactly "0x"
EmptyBytecodeArtifacts ==
    {i \in 1..Len(compiledArtifacts) : compiledArtifacts[i].bytecode = JStr(Bc0x)}

\* the entry is built from artifact i
BuiltFrom(entry, i) ==
    /\ entry.contractName = compiledArtifacts[i].contractName
    /\ entry.abi = compiledArtifacts[i].abi

\* C11: an artifact whose bytecode is exactly "0x" is never the match of a
\* receipt, whatever the creation data: an entry a receipt stores is built from
\* another artifact, and a receipt whose creation data has no other prefix
\* candidate stores nothing.
C11_EmptyBytecodeNeverMatches ==
    [][ \A txHash \in TxHashes, contractAddress \in Addresses :
          (ReceiptStep(txHash, contractAddress) /\ txHash \in DOMAIN pendingTxs)
          => /\ last'.outcome = "stored" =>
                   \E i \in (1..Len(compiledArtifacts)) \ EmptyBytecodeArtifacts :
                       BuiltFrom(Deref(getArtifacts, heap)'[toLowerCase(contractAddress)], i)
             /\ Candidates(pendingTxs[txHash]) = {} =>
                   /\ last'.outcome # "stored"
                   /\ UNCHANGED <<trackedDeployments, heap>>
      ]_vars

\* a receipt found no match although an artifact with the bytecode "0x", a
\* prefix of every creation data, was there from the first
C11_Witness ==
    /\ last.op = "receipt"
    /\ last.outcome = "nomatch"
    /\ 1 \in EmptyBytecodeArtifacts
    /\ trackedDeployments = EmptyMap

\* C20: a receipt for a pending transaction whose creation data matches no
\* compiled artifact removes the pending entry and tracks nothing; the hash has
\* no pending entry afterwards, so that a later receipt for it is a no-op.
C20_NoMatchConsumesPending ==
    [][ \A txHash \in TxHashes, contractAddress \in Addresses :
          ( /\ ReceiptStep(txHash, contractAddress)
            /\ txHash \in DOMAIN pendingTxs
            /\ pendingTxs[txHash] # <<>>
            /\ Candidates(pendingTxs[txHash]) = {} )
          => /\ pendingTxs' = Remove(pendingTxs, txHash)
             /\ UNCHANGED <<trackedDeployments, heap>>
      ]_vars

\* a receipt matched nothing and consumed its pending entry, another
\* transaction still pending and a deployment tracked before
C20_Witness ==
    /\ last.op = "receipt"
    /\ last.outcome = "nomatch"
    /\ last.tx \notin DOMAIN pendingTxs
    /\ pendingTxs # EmptyMap
    /\ trackedDeployments # EmptyMap

(***************************************************************************)
(* The tracker with the history of its sends: lastSend keeps the arguments *)
(* of the last trackSendTransaction call and the data it found pending.    *)
(***************************************************************************)
\* creation data matching B, matching A, and matching nothing
ResendData == {Bc6A0, Bc6a, Bc0x}

InitOverwrite ==
    /\ artifactsDir = [exists |-> TRUE,
                       entries |-> <<File("B", JsonSuffix, DocB), File("A", JsonSuffix, DocA)>>]
    /\ sourceFile = "present"
    /\ buildInfoFile = "missing"
    /\ ignition = NoIgnition
    /\ compiledArtifacts = loadCompiledArtifacts(artifactsDir)
    /\ pendingTxs = EmptyMap
    /\ trackedDeployments = EmptyMap
    /\ heap = EmptyMap
    /\ hasLoggedArtifacts = FALSE
    /\ foundLogs = 0
    /\ returned = EmptyMap
    /\ lastSend = NoSend
    /\ request = NoRequest
    /\ PluginLoaded /\ portBusy = FALSE
    /\ last = Called("new", "", <<>>, "ok")

Resend ==
    /\ \E txHash \in TxHashes, data \in ResendData :
           /\ trackSendTransaction(txHash, data)
           /\ lastSend' = [tx |-> txHash, data |-> data,
                           had |-> txHash \in DOMAIN pendingTxs,
                           old |-> IF txHash \in DOMAIN pendingTxs THEN pendingTxs[txHash]
                                                                   ELSE <<>>]
    /\ UNCHANGED <<plugin, request, disk, compiledArtifacts, hasLoggedArtifacts, foundLogs, returned>>

ResendReceipt ==
    /\ \E txHash \in TxHashes, contractAddress \in Addresses :
           trackDeploymentReceipt(txHash, contractAddress)
    /\ UNCHANGED <<plugin, request, lastSend, disk, compiledArtifacts, hasLoggedArtifacts, foundLogs,
                   returned>>

NextOverwrite == Resend \/ ResendReceipt

SpecOverwrite == InitOverwrite /\ [][NextOverwrite]_vars

\* the first artifact, in scan order, that the creation data d matches
FirstCandidate(d) == CHOOSE i \in Candidates(d) : \A j \in Candidates(d) : i <= j

\* C17: a send for a hash that is already pending overwrites its data: after
\* the send the hash has one pending entry, holding the data of this send, the
\* other entries and the tracked deployments are as before, and a send of the
\* data already pending changes nothing; the receipt that follows is matched
\* against the data of the last send only.
C17_SendOverwritesPending ==
    [][ /\ last'.op = "send" =>
              /\ pendingTxs' = Put(pendingTxs, lastSend'.tx, lastSend'.data)
              /\ UNCHANGED <<trackedDeployments, heap>>
              /\ (lastSend'.had /\ lastSend'.old = lastSend'.data) => pendingTxs' = pendingTxs
        /\ ( /\ last'.op = "receipt"
             /\ last'.tx = lastSend.tx
             /\ last'.tx \in DOMAIN pendingTxs )
           => /\ last'.outcome = "stored" =>
                    /\ Candidates(lastSend.data) # {}
                    /\ BuiltFrom(Deref(getArtifacts, heap)'[toLowerCase(last'.addr)],
                                 FirstCandidate(lastSend.data))
              /\ Candidates(lastSend.data) = {} => last'.outcome = "nomatch"
      ]_vars

\* a hash was sent with data matching one artifact, sent again with data
\* matching another, and its receipt stored the entry of the other one
C17_Witness ==
    /\ last.op = "receipt"
    /\ last.outcome = "stored"
    /\ last.tx = lastSend.tx
    /\ lastSend.had
    /\ Candidates(lastSend.old) # {}
    /\ Candidates(lastSend.data) # {}
    /\ FirstCandidate(lastSend.old) # FirstCandidate(lastSend.data)
    /\ BuiltFrom(Deref(getArtifacts, heap)[toLowerCase(last.addr)],
                 FirstCandidate(lastSend.data))
    /\ ~BuiltFrom(Deref(getArtifacts, heap)[toLowerCase(last.addr)],
                  FirstCandidate(lastSend.old))

(***************************************************************************)
(* The artifact loader: the tracker, the structured deployment on disk and *)
(* the calls of loadIgnitionArtifacts and of the server's artifactLoader.  *)
(***************************************************************************)
InitAgg ==
    /\ artifactsDir = [exists |-> TRUE,
                       entries |-> <<File("A", JsonSuffix, DocA), File("B", JsonSuffix, DocB)>>]
    /\ sourceFile = "present"
    /\ buildInfoFile = "present"
    /\ ignition \in IgnitionDisks
    /\ compiledArtifacts = loadCompiledArtifacts(artifactsDir)
    /\ pendingTxs = EmptyMap
    /\ trackedDeployments = EmptyMap
    /\ heap = EmptyMap
    /\ hasLoggedArtifacts = FALSE
    /\ foundLogs = 0
    /\ returned = EmptyMap
    /\ lastSend = NoSend
    /\ request = NoRequest
    /\ PluginLoaded /\ portBusy = FALSE
    /\ last = Called("new", "", <<>>, "ok")

AggSend ==
    /\ \E data \in {Bc6a, Bc6A0} : trackSendTransaction("t1", data)
    /\ UNCHANGED <<plugin, request, lastSend, disk, compiledArtifacts, hasLoggedArtifacts, foundLogs, returned>>

AggReceipt ==
    /\ \E contractAddress \in Addresses : trackDeploymentReceipt("t1", contractAddress)
    /\ UNCHANGED <<plugin, request, lastSend, disk, compiledArtifacts, hasLoggedArtifacts, foundLogs, returned>>

\* a call of loadIgnitionArtifacts(projectRoot)
LoadIgnition ==
    /\ last' = [op |-> "load"] @@ loadIgnitionArtifactsResult
    /\ loadIgnitionArtifactsEffect
    /\ UNCHANGED <<plugin, request, lastSend, disk, compiledArtifacts, pendingTxs, trackedDeployments, heap, returned>>

\* a call of artifactLoader(); structured is what loadIgnitionArtifacts gave it
Aggregate ==
    /\ last' = [op |-> "aggregate", structured |-> loadIgnitionArtifactsResult]
                   @@ artifactLoaderResult
    /\ loadIgnitionArtifactsEffect
    /\ UNCHANGED <<plugin, request, lastSend, disk, compiledArtifacts, pendingTxs, trackedDeployments, heap, returned>>

NextAgg == AggSend \/ AggReceipt \/ LoadIgnition \/ Aggregate

SpecAgg == InitAgg /\ [][NextAgg]_vars

(***************************************************************************)
(* Claims about the artifact loader and the structured deployment reader.  *)
(***************************************************************************)
\* the aggregator's inputs and result at its last call
StructuredInput == IF last.structured.null THEN EmptyMap ELSE last.structured.map
TrackedInput == Deref(getArtifacts, heap)
Aggregated == last.op = "aggregate" /\ last.outcome = "ok"

\* C4: the aggregator's result has the keys of both maps, the tracker's value
\* under every key of the tracker and the structured value under the others.
C4_TrackedWinsOnCollision ==
    Aggregated =>
        /\ DOMAIN last.map = DOMAIN StructuredInput \cup DOMAIN TrackedInput
        /\ \A k \in DOMAIN TrackedInput : last.map[k] = TrackedInput[k]
        /\ \A k \in DOMAIN StructuredInput \ DOMAIN TrackedInput :
               last.map[k] = StructuredInput[k]

\* {A: x} merged with {A: y, B: z}
C4_Witness ==
    /\ Aggregated
    /\ Cardinality(DOMAIN TrackedInput) = 2
    /\ \E k \in DOMAIN StructuredInput \cap DOMAIN TrackedInput :
           StructuredInput[k] # TrackedInput[k]

\* C5: the aggregator returns null exactly when both inputs have no entry, and
\* never an empty map.
C5_NullIffEmpty ==
    Aggregated =>
        /\ last.null <=> (DOMAIN StructuredInput = {} /\ DOMAIN TrackedInput = {})
        /\ ~last.null => DOMAIN last.map # {}

\* null from an empty, but present, structured map and an empty tracker
C5_Witness ==
    /\ Aggregated
    /\ last.null
    /\ ~last.structured.null
    /\ trackedDeployments = EmptyMap

\* C7: no key of the tracker's map, of the structured map or of the combined map
\* has an uppercase character.
C7_KeysAreLowercase ==
    /\ \A k \in DOMAIN trackedDeployments : ~HasUpper(k)
    /\ last.op = "load" => \A k \in DOMAIN last.map : ~HasUpper(k)
    /\ last.op = "aggregate" =>
           /\ \A k \in DOMAIN last.structured.map : ~HasUpper(k)
           /\ \A k \in DOMAIN last.map : ~HasUpper(k)

\* a receipt address and a deployed_addresses.json value with uppercase digits
\* are both in the combined map
C7_Witness ==
    /\ Aggregated
    /\ \E k \in DOMAIN TrackedInput : HasUpper(TrackedInput[k].deployments[1])
    /\ \E k \in DOMAIN StructuredInput \ DOMAIN TrackedInput :
           HasUpper(last.map[k].deployments[1])

\* C8: loadIgnitionArtifacts and the aggregator return a value and never raise,
\* whatever the structured deployment record set on disk holds.
C8_LoadersNeverRaise ==
    last.op \in {"load", "aggregate"} => last.outcome # "raised"

ReturnedNull == last.outcome = "ok" /\ last.null

\* C9: loadIgnitionArtifacts returns null exactly when the deployment-record
\* root does not exist; whenever the root exists it returns a map, not null.
C9_NullIffNoRoot ==
    last.op = "load" => (ReturnedNull <=> ~ignition.root)

(***************************************************************************)
(* Repeated loads within one process while the deployment record set comes *)
(* and goes on disk.                                                       *)
(***************************************************************************)
\* ignition deploy writes a record set where deployed_addresses.json was not
IgnitionDeploy ==
    /\ ~HasAddresses
    /\ ignition' \in {d \in IgnitionDisks : d.root /\ d.addresses # "missing"}
    /\ last' = Called("deploy", "", <<>>, "ok")
    /\ UNCHANGED <<plugin, request, lastSend, artifactsDir, sourceFile, buildInfoFile, compiledArtifacts,
                   pendingTxs,
                   trackedDeployments, heap, hasLoggedArtifacts, foundLogs, returned>>

\* the deployment directory is removed from disk
IgnitionWipe ==
    /\ HasAddresses
    /\ ignition' = NoIgnition
    /\ last' = Called("wipe", "", <<>>, "ok")
    /\ UNCHANGED <<plugin, request, lastSend, artifactsDir, sourceFile, buildInfoFile, compiledArtifacts,
                   pendingTxs,
                   trackedDeployments, heap, hasLoggedArtifacts, foundLogs, returned>>

NextLog == LoadIgnition \/ Aggregate \/ IgnitionDeploy \/ IgnitionWipe

SpecLog == InitAgg /\ [][NextLog]_vars

\* C12: over any number of calls of loadIgnitionArtifacts in one process the
\* "found deployment" line is logged exactly once: by the first call that finds
\* the record set and by none after it; a call that returns null logs nothing
\* and leaves the announcement to come.
C12_FoundLoggedOnce ==
    [][ last'.op \in {"load", "aggregate"} =>
          /\ foundLogs' = IF HasAddresses /\ foundLogs = 0 THEN 1 ELSE foundLogs
          /\ ~HasAddresses => UNCHANGED <<hasLoggedArtifacts, foundLogs>>
      ]_vars

\* a call returned null after the one line was logged by an earlier call
C12_Witness ==
    /\ last.op = "load"
    /\ ReturnedNull
    /\ foundLogs = 1

(***************************************************************************)
(* A caller of getArtifacts(): it keeps the object it got and changes it.  *)
(***************************************************************************)
CallerKeys == {toLowerCase(a) : a \in Addresses}
\* a deployments element the caller appends
CallerAddress == <<"0", "x", "e", "e">>
\* the reference of an object the caller made itself
CallerObject == 0

CopySend ==
    /\ \E data \in {Bc6a, Bc6A0} : trackSendTransaction("t1", data)
    /\ UNCHANGED <<plugin, request, lastSend, disk, compiledArtifacts, hasLoggedArtifacts, foundLogs, returned>>

CopyReceipt ==
    /\ \E contractAddress \in Addresses : trackDeploymentReceipt("t1", contractAddress)
    /\ UNCHANGED <<plugin, request, lastSend, disk, compiledArtifacts, hasLoggedArtifacts, foundLogs, returned>>

\* the caller calls getArtifacts() and keeps the result in place of the last one
GetArtifacts ==
    /\ returned' = getArtifacts
    /\ heap' = Collect(heap, trackedDeployments, returned')
    /\ last' = Called("get", "", <<>>, "ok")
    /\ UNCHANGED <<plugin, request, lastSend, disk, compiledArtifacts, pendingTxs, trackedDeployments,
                   hasLoggedArtifacts, foundLogs>>

\* delete result[k]
CallerDeleteKey ==
    /\ \E k \in DOMAIN returned : returned' = Remove(returned, k)
    /\ heap' = Collect(heap, trackedDeployments, returned')
    /\ last' = Called("caller", "", <<>>, "ok")
    /\ UNCHANGED <<plugin, request, lastSend, disk, compiledArtifacts, pendingTxs, trackedDeployments,
                   hasLoggedArtifacts, foundLogs>>

\* result[k] = an object of the caller's
CallerSetKey ==
    /\ \E k \in CallerKeys : returned' = Put(returned, k, CallerObject)
    /\ returned' # returned
    /\ heap' = Collect(heap, trackedDeployments, returned')
    /\ last' = Called("caller", "", <<>>, "ok")
    /\ UNCHANGED <<plugin, request, lastSend, disk, compiledArtifacts, pendingTxs, trackedDeployments,
                   hasLoggedArtifacts, foundLogs>>

\* result[k].deployments.push(address)
CallerPush ==
    /\ \E k \in DOMAIN returned :
           /\ returned[k] \in DOMAIN heap
           /\ Len(heap[returned[k]].deployments) <= MaxPush
           /\ heap' = [heap EXCEPT ![returned[k]].deployments = Append(@, CallerAddress)]
    /\ last' = Called("caller", "", <<>>, "ok")
    /\ UNCHANGED <<plugin, request, lastSend, disk, compiledArtifacts, pendingTxs, trackedDeployments, returned,
                   hasLoggedArtifacts, foundLogs>>

NextCopy ==
    CopySend \/ CopyReceipt \/ GetArtifacts \/ CallerDeleteKey \/ CallerSetKey \/ CallerPush

InitCopy ==
    /\ artifactsDir = [exists |-> TRUE,
                       entries |-> <<File("A", JsonSuffix, DocA), File("B", JsonSuffix, DocB)>>]
    /\ sourceFile \in SomeFileStatus
    /\ buildInfoFile \in SomeFileStatus
    /\ ignition = NoIgnition
    /\ compiledArtifacts = loadCompiledArtifacts(artifactsDir)
    /\ pendingTxs = EmptyMap
    /\ trackedDeployments = EmptyMap
    /\ heap = EmptyMap
    /\ hasLoggedArtifacts = FALSE
    /\ foundLogs = 0
    /\ returned = EmptyMap
    /\ lastSend = NoSend
    /\ request = NoRequest
    /\ PluginLoaded /\ portBusy = FALSE
    /\ last = Called("new", "", <<>>, "ok")

SpecCopy == InitCopy /\ [][NextCopy]_vars

\* C6: whatever a caller does to the object getArtifacts() returned (adding or
\* deleting keys, changing a field of an entry reachable from it), what the
\* tracker holds, and so what getArtifacts() returns afterwards, is unchanged.
C6_ReturnedMapIsDetached ==
    [][ last'.op = "caller" =>
            Deref(getArtifacts, heap)' = Deref(getArtifacts, heap) ]_vars

(***************************************************************************)
(* The scan of a compiled-artifact tree at the tracker's construction.     *)
(***************************************************************************)
Placements == [depth : 0..MaxDepth, file : ScanFiles]

RECURSIVE levelOf(_, _)
\* the directory at depth d of the tree the placements describe: its files,
\* then the subdirectory holding the deeper ones
levelOf(pl, d) ==
    LET here == SelectSeq(pl, LAMBDA x : x.depth = d)
        deeper == SelectSeq(pl, LAMBDA x : x.depth > d)
    IN  [i \in 1..Len(here) |-> here[i].file]
        \o (IF deeper = <<>> THEN <<>> ELSE <<Dir("sub", levelOf(deeper, d + 1))>>)

ScanTrees ==
    {[exists |-> FALSE, entries |-> <<>>]} \cup
    {[exists |-> TRUE, entries |-> levelOf(pl, 0)] :
        pl \in {s \in SeqsUpTo(Placements, MaxFiles) : Injective(s)}}

InitScan ==
    /\ artifactsDir \in ScanTrees
    /\ sourceFile = "present"
    /\ buildInfoFile = "present"
    /\ ignition = NoIgnition
    /\ compiledArtifacts = <<>>
    /\ pendingTxs = EmptyMap
    /\ trackedDeployments = EmptyMap
    /\ heap = EmptyMap
    /\ hasLoggedArtifacts = FALSE
    /\ foundLogs = 0
    /\ returned = EmptyMap
    /\ lastSend = NoSend
    /\ request = NoRequest
    /\ PluginLoaded /\ portBusy = FALSE
    /\ last = Called("boot", "", <<>>, "ok")

\* new DeploymentTracker(projectRoot)
Construct ==
    /\ last.op = "boot"
    /\ compiledArtifacts' = loadCompiledArtifacts(artifactsDir)
    /\ last' = Called("new", "", <<>>, "ok")
    /\ UNCHANGED <<plugin, request, lastSend, disk, pendingTxs, trackedDeployments, heap, hasLoggedArtifacts,
                   foundLogs, returned>>

NextScan == Construct

SpecScan == InitScan /\ [][NextScan]_vars

RECURSIVE FilesOf(_)
\* the files of a tree, at every depth
FilesOf(dir) ==
    IF dir = <<>> THEN <<>>
    ELSE (IF Head(dir).kind = "dir" THEN FilesOf(Head(dir).entries) ELSE <<Head(dir)>>)
         \o FilesOf(Tail(dir))

\* the number of files of a tree that satisfy P
CountFiles(dir, P(_)) ==
    Cardinality({i \in 1..Len(FilesOf(dir)) : P(FilesOf(dir)[i])})

\* valid as the claim has it: parseable JSON with a non-empty contractName, an
\* abi field and a bytecode field
ValidAsClaimed(f) ==
    /\ f.doc.parse = "ok"
    /\ Truthy(f.doc.contractName)
    /\ f.doc.abi.kind # "absent"
    /\ f.doc.bytecode.kind # "absent"

\* valid as amended: a *.json file, parseable, whose contractName, abi and
\* bytecode are all present and truthy (not "", null, 0 or false)
ValidAsAmended(f) ==
    /\ endsWith(f.name, JsonSuffix)
    /\ f.doc.parse = "ok"
    /\ f.doc.contractName.kind \in {"string", "other"} /\ f.doc.contractName.val # <<>>
    /\ f.doc.abi.kind \in {"string", "other"} /\ f.doc.abi.val # <<>>
    /\ f.doc.bytecode.kind \in {"string", "other"} /\ f.doc.bytecode.val # <<>>

\* C10 as claimed: the scan of a tree with N valid and M malformed files ends
\* normally with exactly N compiled artifacts.
C10_ScanCountsValidFiles ==
    last.op = "new" =>
        /\ last.outcome = "ok"
        /\ Len(compiledArtifacts) = CountFiles(artifactsDir.entries, ValidAsClaimed)

\* C10 as amended: exactly the *.json files whose contractName, abi and bytecode
\* are truthy are collected, at any depth, and the scan ends normally.
C10_ScanCountsTruthyJsonFiles ==
    last.op = "new" =>
        /\ last.outcome = "ok"
        /\ Len(compiledArtifacts) = CountFiles(artifactsDir.entries, ValidAsAmended)

\* a subdirectory with a valid file, beside a malformed file: one artifact
C10_Witness ==
    /\ last.op = "new"
    /\ Len(compiledArtifacts) = 1
    /\ \E i \in 1..Len(artifactsDir.entries) :
           /\ artifactsDir.entries[i].kind = "dir"
           /\ CountFiles(artifactsDir.entries[i].entries, ValidAsAmended) = 1
    /\ \E i \in 1..Len(artifactsDir.entries) :
           /\ artifactsDir.entries[i].kind = "file"
           /\ artifactsDir.entries[i].doc.parse = "bad"

(***************************************************************************)
(* WebappService: the injection of the artifacts into a served HTML page.  *)
(* Texts (a page, the JSON of a map, the script) are sequences of tokens:  *)
(* one token for each character that an operation here treats specially,   *)
(* for each script-closing tag and each HTML tag, and one for any other    *)
(* run of characters.                                                      *)
(***************************************************************************)
MaxSource == 3       \* tokens of a source text carried by an AddressMap entry

Quote == "\""
Backslash == "\\"
\* the grave accent character (U+0060)
Grave == "grave"
CloseLower == "</script>"
CloseUpper == "</SCRIPT>"
EscapedClose == "<\\/script>"
BodyTag == "<body>"
ScriptOpen == "<script>"
SetItemOpen == "try{localStorage.setItem(\"OPENSCAN_ARTIFACTS_JSON_V1\","
SetItemClose == ")}catch(e){console.warn(\"[openscan] Failed to inject artifacts:\",e)}"

RECURSIVE Flatten(_)
\* the texts of a list one after the other
Flatten(texts) ==
    IF texts = <<>> THEN <<>>
    ELSE IF Len(texts) = 1 THEN texts[1]
    ELSE LET half == Len(texts) \div 2
         IN Flatten(SubSeq(texts, 1, half)) \o Flatten(SubSeq(texts, half + 1, Len(texts)))

\* the characters of a string as JSON.stringify writes them between the quotes
jsonEscape(s) ==
    Flatten([i \in 1..Len(s) |->
                IF s[i] \in {Quote, Backslash} THEN <<Backslash, s[i]>> ELSE <<s[i]>>])

\* JSON.stringify of a string
stringifyString(s) == <<Quote>> \o jsonEscape(s) \o <<Quote>>

RECURSIVE Join(_, _)
\* the texts of a list, sep between them
Join(texts, sep) ==
    IF texts = <<>> THEN <<>>
    ELSE IF Len(texts) = 1 THEN texts[1]
    ELSE texts[1] \o <<sep>> \o Join(Tail(texts), sep)

\* JSON.stringify of a property value: null, a string, or a value that is
\* neither, written as the token that names it
stringifyValue(v) ==
    IF v.kind = "null" THEN <<"null">>
    ELSE IF v.kind = "string" THEN stringifyString(v.val)
    ELSE v.val

\* "name":value, or nothing for an undefined property
stringifyField(name, v) ==
    IF v.kind = "absent" THEN <<>>
    ELSE << stringifyString(<<name>>) \o <<":">> \o stringifyValue(v) >>

\* JSON.stringify of an ArtifactData object, its properties in creation order
stringifyEntry(e) ==
    <<"{">>
    \o Join(stringifyField("abi", e.abi)
            \o stringifyField("contractName", e.contractName)
            \o stringifyField("sourceName", e.sourceName)
            \o stringifyField("buildInfoId", e.buildInfoId)
            \o << stringifyString(<<"deployments">>) \o <<":", "[">>
                  \o Join([i \in 1..Len(e.deployments) |-> stringifyString(e.deployments[i])],
                          ",")
                  \o <<"]">> >>
            \o stringifyField("sourceCode", e.sourceCode)
            \o stringifyField("buildInfo", e.buildInfo),
            ",")
    \o <<"}">>

RECURSIVE KeySeq(_)
\* the keys of an object in the order JSON.stringify visits them
KeySeq(keys) ==
    IF keys = {} THEN <<>>
    ELSE LET k == CHOOSE x \in keys : TRUE IN <<k>> \o KeySeq(keys \ {k})

\* JSON.stringify of an AddressMap
stringifyMap(m) ==
    <<"{">>
    \o Join([i \in 1..Cardinality(DOMAIN m) |->
                stringifyString(KeySeq(DOMAIN m)[i]) \o <<":">>
                \o stringifyEntry(m[KeySeq(DOMAIN m)[i]])],
            ",")
    \o <<"}">>

\* jsonString.replace(/<\/script>/gi, "<\\/script>")
escapeScriptClose(text) ==
    [i \in 1..Len(text) |->
        IF text[i] \in {CloseLower, CloseUpper} THEN EscapedClose ELSE text[i]]

\* the index of the first occurrence of a token, 0 when there is none
IndexOf(text, token) ==
    IF \A i \in 1..Len(text) : text[i] # token THEN 0
    ELSE CHOOSE i \in 1..Len(text) :
             text[i] = token /\ \A j \in 1..(i - 1) : text[j] # token

RECURSIVE PatternStart(_, _)
\* a replacement pattern begins at position i: a "$" that is not the second
\* character of a pattern, followed by "$", "&", a grave accent or an apostrophe
PatternStart(r, i) ==
    /\ r[i] = "$"
    /\ i < Len(r)
    /\ r[i + 1] \in {"$", "&", Grave, "'"}
    /\ ~(i > 1 /\ PatternStart(r, i - 1))

\* the replacement string of String.prototype.replace with its patterns
\* expanded: $$ is "$", $& the match, $ and a grave accent the text before it,
\* $ and an apostrophe the text after it
expandReplacement(r, before, matched, after) ==
    Flatten([i \in 1..Len(r) |->
                IF PatternStart(r, i)
                THEN CASE r[i + 1] = "$" -> <<"$">>
                       [] r[i + 1] = "&" -> <<matched>>
                       [] r[i + 1] = Grave -> before
                       [] r[i + 1] = "'" -> after
                ELSE IF i > 1 /\ PatternStart(r, i - 1) THEN <<>>
                ELSE <<r[i]>>])

\* html.replace(pattern, replacement), pattern a string: the first occurrence
replaceFirst(html, pattern, replacement) ==
    LET i == IndexOf(html, pattern)
        before == SubSeq(html, 1, i - 1)
        after == SubSeq(html, i + 1, Len(html))
    IN  IF i = 0 THEN html
        ELSE before \o expandReplacement(replacement, before, pattern, after) \o after

\* lines 220-231: the script fragment for a map
scriptTagOf(map) ==
    LET jsonString == stringifyString(stringifyMap(map))
        safeJsonString == escapeScriptClose(jsonString)
    IN  <<ScriptOpen, SetItemOpen>> \o safeJsonString \o <<SetItemClose, CloseLower>>

\* the injection without the test of line 216: a script for every loaded value
injectArtifactsScriptAlways(html, loader) ==
    IF ~loader.configured \/ loader.outcome = "raised" THEN html
    ELSE replaceFirst(html, BodyTag,
                      <<BodyTag>> \o scriptTagOf(IF loader.null THEN EmptyMap ELSE loader.map))

\* WebappService.injectArtifactsScript(html); loader is what this.artifactLoader
\* is and does: [configured, outcome, null, map]
injectArtifactsScript(html, loader) ==
    IF ~loader.configured THEN html
    ELSE IF loader.outcome = "raised" THEN html
    ELSE IF loader.null \/ DOMAIN loader.map = {} THEN html
    ELSE replaceFirst(html, BodyTag, <<BodyTag>> \o scriptTagOf(loader.map))

\* WebappService.serveFile(filePath, res, ext): the response
serveFile(file, ext, loader) ==
    IF ~file.readable THEN [status |-> 500, body |-> <<"500 Internal Server Error">>]
    ELSE [status |-> 200,
          body |-> IF ext = ".html" THEN injectArtifactsScript(file.data, loader)
                   ELSE file.data]

(***************************************************************************)
(* The browser: the script element the injection opened, and what running  *)
(* it stores.                                                              *)
(***************************************************************************)
IsScriptClose(token) == token \in {CloseLower, CloseUpper}

\* the text of the script element opened at position start: up to the first
\* script-closing tag after it
ScriptElement(body, start) ==
    LET ends == {i \in (start + 1)..Len(body) : IsScriptClose(body[i])}
    IN  IF ends = {} THEN SubSeq(body, start + 1, Len(body))
        ELSE SubSeq(body, start + 1, (CHOOSE i \in ends : \A j \in ends : i <= j) - 1)

\* the token at position i of a string literal follows an escaping backslash:
\* the backslashes just before it are odd in number
IsEscaped(lit, i) ==
    Cardinality({j \in 2..(i - 1) : \A m \in j..(i - 1) : lit[m] = Backslash}) % 2 = 1

\* a double-quoted string literal evaluated (JavaScript), or parsed (JSON): ok
\* when the first quote that is not escaped is the last token; an escaped
\* character stands for itself
evalLiteral(lit) ==
    LET ends == {i \in 2..Len(lit) : lit[i] = Quote /\ ~IsEscaped(lit, i)}
    IN  IF lit = <<>> \/ Head(lit) # Quote \/ ends = {} \/ \E i \in ends : i < Len(lit)
        THEN [ok |-> FALSE, val |-> <<>>]
        ELSE [ok |-> TRUE,
              val |-> Flatten([x \in 1..(Len(lit) - 2) |->
                         LET i == x + 1
                         IN  IF IsEscaped(lit, i) THEN <<lit[i]>>
                             ELSE IF lit[i] = Backslash THEN <<>>
                             ELSE IF lit[i] = EscapedClose THEN <<CloseLower>>
                             ELSE <<lit[i]>>])]

\* where the injected script element opens in an emitted page, 0 if nowhere
InjectedAt(body) ==
    LET i == IndexOf(body, BodyTag)
    IN  IF i > 0 /\ i + 2 <= Len(body) /\ body[i + 1] = ScriptOpen /\ body[i + 2] = SetItemOpen
        THEN i + 1 ELSE 0

\* what the browser holds under OPENSCAN_ARTIFACTS_JSON_V1 once the page's
\* injected script has run: [set, value]; not set when there is no such script
\* or it does not parse
ClientStored(body) ==
    LET at == InjectedAt(body)
        text == ScriptElement(body, at)
        lit == SubSeq(text, 2, Len(text) - 1)
    IN  IF at = 0 \/ Len(text) < 2 \/ text[Len(text)] # SetItemClose
        THEN [set |-> FALSE, value |-> <<>>]
        ELSE [set |-> evalLiteral(lit).ok, value |-> evalLiteral(lit).val]

(***************************************************************************)
(* One request served by a WebappService built with some artifact loader.  *)
(***************************************************************************)
PlainPage == <<"<html>", BodyTag, "<div id=root>", "</body>">>
ScriptPage == <<"<html>", BodyTag, "<div id=root>", "<script src=app.js>", CloseLower, "</body>">>
AttrPage == <<"<html>", "<body class=dark>", "<div id=root>", "</body>">>
\* a script file whose text has the characters <body> in it
ScriptFile == <<"document.write('", BodyTag, "')">>

ServedFiles ==
    {[readable |-> TRUE, ext |-> ".html", data |-> d] : d \in {PlainPage, ScriptPage, AttrPage}}
    \cup {[readable |-> TRUE, ext |-> ".js", data |-> ScriptFile],
          [readable |-> FALSE, ext |-> ".html", data |-> <<>>]}

SourceChars == {"a", Quote, Backslash, "$", "&", "'", Grave, CloseLower, CloseUpper}
SourceTexts == SeqsUpTo(SourceChars, MaxSource)

\* an AddressMap of one entry whose sourceCode is the value v
MapWithSource(v) ==
    [k \in {<<"0", "x", "a", "b">>} |->
        [abi |-> JOther("abiA"), contractName |-> JStr(<<"A">>), sourceName |-> JStr(SrcA),
         buildInfoId |-> Absent, deployments |-> <<Addr0xAB>>, sourceCode |-> v,
         buildInfo |-> Absent]]

\* what the artifactLoader of the service can be and do
Loaders ==
    {[configured |-> FALSE] @@ Returned(FALSE, TRUE, EmptyMap),
     [configured |-> TRUE] @@ Returned(TRUE, FALSE, EmptyMap),
     [configured |-> TRUE] @@ Returned(FALSE, TRUE, EmptyMap),
     [configured |-> TRUE] @@ Returned(FALSE, FALSE, EmptyMap),
     [configured |-> TRUE] @@ Returned(FALSE, FALSE, MapWithSource(Absent))}
    \cup {[configured |-> TRUE] @@ Returned(FALSE, FALSE, MapWithSource(JStr(t))) :
             t \in SourceTexts}

\* a request for a file is in flight
InitInject ==
    /\ artifactsDir = [exists |-> FALSE, entries |-> <<>>]
    /\ sourceFile = "missing"
    /\ buildInfoFile = "missing"
    /\ ignition = NoIgnition
    /\ compiledArtifacts = <<>>
    /\ pendingTxs = EmptyMap
    /\ trackedDeployments = EmptyMap
    /\ heap = EmptyMap
    /\ hasLoggedArtifacts = FALSE
    /\ foundLogs = 0
    /\ returned = EmptyMap
    /\ lastSend = NoSend
    /\ request = NoRequest
    /\ PluginLoaded /\ portBusy = FALSE
    /\ last \in {[op |-> "request", file |-> f, loader |-> l] : f \in ServedFiles, l \in Loaders}

\* the callback of fs.readFile in serveFile answers the request
ServeFile ==
    /\ last.op = "request"
    /\ last' = [op |-> "serve", file |-> last.file, loader |-> last.loader]
                   @@ serveFile(last.file, last.file.ext, last.loader)
    /\ UNCHANGED <<plugin, request, lastSend, disk, compiledArtifacts, pendingTxs, trackedDeployments, heap,
                   hasLoggedArtifacts, foundLogs, returned>>

NextInject == ServeFile

SpecInject == InitInject /\ [][NextInject]_vars

\* the response to a readable HTML file
ServedHtml == last.op = "serve" /\ last.file.readable /\ last.file.ext = ".html"

\* the loader gave a map with at least one entry
LoadedMap ==
    /\ last.loader.configured
    /\ last.loader.outcome = "ok"
    /\ ~last.loader.null
    /\ DOMAIN last.loader.map # {}

CloseCount(text) == Cardinality({i \in 1..Len(text) : IsScriptClose(text[i])})

HasScriptClose(v) == v.kind = "string" /\ \E i \in 1..Len(v.val) : IsScriptClose(v.val[i])

\* C13: when a sourceCode of the map has a "</script>" in it, in any letter
\* case, the page emitted with the injected script has no script-closing tag
\* inside the payload: the script element runs to the end of the fragment, and
\* the one tag ending it is the only one the injection adds to the page.
C13_NoScriptCloseInPayload ==
    ( /\ ServedHtml
      /\ LoadedMap
      /\ \E k \in DOMAIN last.loader.map : HasScriptClose(last.loader.map[k].sourceCode)
      /\ InjectedAt(last.body) > 0 )
    => /\ CloseCount(last.body) = CloseCount(last.file.data) + 1
       /\ LET text == ScriptElement(last.body, InjectedAt(last.body))
          IN  text # <<>> /\ text[Len(text)] = SetItemClose

\* C14: with no loader, a loader that throws, or one that returns null or an
\* empty map, a readable HTML file is answered with status 200 and its own text;
\* a file that is not HTML is answered with its own text whatever the loader.
C14_UnmodifiedWithoutArtifacts ==
    (last.op = "serve" /\ last.file.readable) =>
        /\ last.status = 200
        /\ (last.file.ext # ".html" \/ ~LoadedMap) => last.body = last.file.data

\* the loader threw while a page with a <body> tag was served
C14_Witness ==
    /\ ServedHtml
    /\ last.loader.configured
    /\ last.loader.outcome = "raised"
    /\ IndexOf(last.file.data, BodyTag) > 0
    /\ last.body = last.file.data

\* C16: once the injected script has run, the value under
\* OPENSCAN_ARTIFACTS_JSON_V1 is the JSON text of a string, and that string is
\* the JSON text of the AddressMap: two parse steps give the map back.
C16_StoredIsDoubleEncoded ==
    (ServedHtml /\ LoadedMap /\ InjectedAt(last.body) > 0) =>
        LET stored == ClientStored(last.body)
            inner == evalLiteral(stored.value)
        IN  /\ stored.set
            /\ inner.ok
            /\ inner.val = stringifyMap(last.loader.map)

(***************************************************************************)
(* The server of createOpenscanServer: pages served with the artifactLoader *)
(* composed there, while deployments are tracked.                          *)
(***************************************************************************)
\* ignition deployments the served project may have
ServedDisks ==
    {NoIgnition,
     [NoIgnition EXCEPT !.root = TRUE, !.addresses = "invalid"],
     [root |-> TRUE, addresses |-> "ok",
      entries |-> <<[key |-> <<"M", "#", "A">>, value |-> JStr(Addr0xAB)]>>,
      artifacts |-> [exists |-> TRUE, files |-> <<File("M#A", JsonSuffix, DocA)>>],
      buildInfo |-> "present"]}

InitServe ==
    /\ artifactsDir = [exists |-> TRUE,
                       entries |-> <<File("A", JsonSuffix, DocA), File("B", JsonSuffix, DocB)>>]
    /\ sourceFile = "present"
    /\ buildInfoFile = "present"
    /\ ignition \in ServedDisks
    /\ compiledArtifacts = loadCompiledArtifacts(artifactsDir)
    /\ pendingTxs = EmptyMap
    /\ trackedDeployments = EmptyMap
    /\ heap = EmptyMap
    /\ hasLoggedArtifacts = FALSE
    /\ foundLogs = 0
    /\ returned = EmptyMap
    /\ lastSend = NoSend
    /\ request = NoRequest
    /\ PluginLoaded /\ portBusy = FALSE
    /\ last = Called("new", "", <<>>, "ok")

\* index.html is requested: serveFile with the loader's result of this call
ServePage ==
    /\ \E page \in {PlainPage, AttrPage} :
         LET file == [readable |-> TRUE, ext |-> ".html", data |-> page]
             loader == [configured |-> TRUE] @@ artifactLoaderResult
         IN  last' = [op |-> "serve", file |-> file, loader |-> loader]
                         @@ serveFile(file, ".html", loader)
    /\ loadIgnitionArtifactsEffect
    /\ UNCHANGED <<plugin, request, lastSend, disk, compiledArtifacts, pendingTxs, trackedDeployments, heap, returned>>

NextServe == AggSend \/ AggReceipt \/ ServePage

SpecServe == InitServe /\ [][NextServe]_vars

\* sub occurs in text
Contains(text, sub) ==
    \E i \in 1..(Len(text) - Len(sub) + 1) : SubSeq(text, i, i + Len(sub) - 1) = sub

\* C15: every HTML response served after trackDeploymentReceipt stored an
\* address carries that address in the injected payload: the value the page's
\* script stores has the key of every deployment tracked so far.
C15_TrackedVisibleOnNextPage ==
    ServedHtml =>
        \A k \in DOMAIN trackedDeployments :
            /\ ClientStored(last.body).set
            /\ Contains(ClientStored(last.body).value, stringifyString(k) \o <<":">>)

(***************************************************************************)
(* The network hook module: newConnection, startWebapp, the signal         *)
(* handlers and cleanup, with the OpenscanServer and the WebappService     *)
(* they drive. A step is the code one event runs up to its next await on   *)
(* an outside event; several calls and handlers interleave at those points.*)
(***************************************************************************)
\* what the steps of the hook module leave alone: the tracker is not called
trackerIdle == <<disk, pendingTxs, trackedDeployments, heap, hasLoggedArtifacts, foundLogs,
                 returned, last, lastSend, request>>

\* what startWebapp finds installed: the explorer package with its
\* index.html, the package without index.html, or no package to resolve
Installs == {"ok", "noindex", "unresolved"}

Finish(h, how) ==
    /\ pc' = [pc EXCEPT ![h] = "done"]
    /\ result' = [result EXCEPT ![h] = how]

\* newConnection is called and awaits next(context)
newConnection(h) ==
    /\ ~exited
    /\ UNCHANGED trackerIdle
    /\ pc[h] = "none"
    /\ pc' = [pc EXCEPT ![h] = "next"]
    /\ UNCHANGED <<webappStarted, webappServer, tracker, cleanupInProgress, webappService,
                   server, connections, result, portAvailable, portBusy, exited, stopCalls,
                   compiledArtifacts>>

\* newConnection going on to startWebapp whatever webappStarted says
newConnectionAfterNextUnguarded(h) ==
    /\ ~exited
    /\ UNCHANGED trackerIdle
    /\ pc[h] = "next"
    /\ webappStarted' = TRUE
    /\ pc' = [pc EXCEPT ![h] = "isPortAvailable"]
    /\ UNCHANGED result
    /\ UNCHANGED <<webappServer, tracker, cleanupInProgress, webappService, server,
                   connections, portAvailable, portBusy, exited, stopCalls, compiledArtifacts>>

\* next(context) resolved: the first call goes on to startWebapp, which awaits
\* isPortAvailable(); a later call returns the connection
newConnectionAfterNext(h) ==
    /\ ~exited
    /\ UNCHANGED trackerIdle
    /\ pc[h] = "next"
    /\ IF ~webappStarted
       THEN /\ webappStarted' = TRUE
            /\ pc' = [pc EXCEPT ![h] = "isPortAvailable"]
            /\ UNCHANGED result
       ELSE /\ Finish(h, "connection")
            /\ UNCHANGED webappStarted
    /\ UNCHANGED <<webappServer, tracker, cleanupInProgress, webappService, server,
                   connections, portAvailable, portBusy, exited, stopCalls, compiledArtifacts>>

\* the probe server of isPortAvailable got its listening or its error event
isPortAvailable(h) ==
    /\ ~exited
    /\ UNCHANGED trackerIdle
    /\ pc[h] = "isPortAvailable"
    /\ portAvailable' = IF portBusy \/ server = "listening" THEN "no" ELSE "yes"
    /\ pc' = [pc EXCEPT ![h] = "startWebapp"]
    /\ UNCHANGED <<webappStarted, webappServer, tracker, cleanupInProgress, webappService,
                   server, connections, result, portBusy, exited, stopCalls,
                   compiledArtifacts>>

\* startWebapp with the answer of the port check: it warns and returns, or
\* builds the tracker and the server and listens; a throw inside the try block
\* is thrown again by the catch block, and newConnection rejects
startWebapp(h) ==
    /\ ~exited
    /\ UNCHANGED trackerIdle
    /\ pc[h] = "startWebapp"
    /\ IF portAvailable = "no"
       THEN /\ Finish(h, "connection")
            /\ UNCHANGED <<tracker, webappServer, webappService, server, compiledArtifacts>>
       ELSE /\ tracker' = "tracker"
            /\ compiledArtifacts' = loadCompiledArtifacts(artifactsDir)
            /\ \E install \in Installs :
                 IF install = "unresolved"
                 THEN /\ Finish(h, "error")
                      /\ UNCHANGED <<webappServer, webappService, server>>
                 ELSE /\ webappServer' = "server"
                      /\ webappService' = "service"
                      /\ IF install = "noindex"
                         THEN Finish(h, "error") /\ UNCHANGED server
                         ELSE IF portBusy
                         THEN Finish(h, "error") /\ server' = "created"
                         ELSE /\ server' = "listening"
                              /\ pc' = [pc EXCEPT ![h] = "waitForReady"]
                              /\ UNCHANGED result
    /\ UNCHANGED <<webappStarted, cleanupInProgress, connections, portAvailable, portBusy,
                   exited, stopCalls>>

\* waitForReady got an ok response, or gave up after its attempts
waitForReady(h) ==
    /\ ~exited
    /\ UNCHANGED trackerIdle
    /\ pc[h] = "waitForReady"
    /\ \/ pc' = [pc EXCEPT ![h] = "openBrowser"] /\ UNCHANGED result
       \/ Finish(h, "error")
    /\ UNCHANGED <<webappStarted, webappServer, tracker, cleanupInProgress, webappService,
                   server, connections, portAvailable, portBusy, exited, stopCalls,
                   compiledArtifacts>>

\* openBrowser resolved, startWebapp returns and newConnection with it
openBrowser(h) ==
    /\ ~exited
    /\ UNCHANGED trackerIdle
    /\ pc[h] = "openBrowser"
    /\ Finish(h, "connection")
    /\ UNCHANGED <<webappStarted, webappServer, tracker, cleanupInProgress, webappService,
                   server, connections, portAvailable, portBusy, exited, stopCalls,
                   compiledArtifacts>>

\* the server's connection event, and a connection's close event
onConnection(c) ==
    /\ ~exited
    /\ UNCHANGED trackerIdle
    /\ server = "listening"
    /\ c \notin connections
    /\ connections' = connections \cup {c}
    /\ UNCHANGED <<webappStarted, webappServer, tracker, cleanupInProgress, webappService,
                   server, pc, result, portAvailable, portBusy, exited, stopCalls,
                   compiledArtifacts>>

onConnectionClose(c) ==
    /\ ~exited
    /\ UNCHANGED trackerIdle
    /\ c \in connections
    /\ connections' = connections \ {c}
    /\ UNCHANGED <<webappStarted, webappServer, tracker, cleanupInProgress, webappService,
                   server, pc, result, portAvailable, portBusy, exited, stopCalls,
                   compiledArtifacts>>

\* another process takes port 3030, or gives it back
PortTaken ==
    /\ ~exited
    /\ UNCHANGED trackerIdle
    /\ ~portBusy
    /\ server # "listening"
    /\ portBusy' = TRUE
    /\ UNCHANGED <<webappStarted, webappServer, tracker, cleanupInProgress, webappService,
                   server, connections, pc, result, portAvailable, exited, stopCalls,
                   compiledArtifacts>>

PortFreed ==
    /\ ~exited
    /\ UNCHANGED trackerIdle
    /\ portBusy
    /\ portBusy' = FALSE
    /\ UNCHANGED <<webappStarted, webappServer, tracker, cleanupInProgress, webappService,
                   server, connections, pc, result, portAvailable, exited, stopCalls,
                   compiledArtifacts>>

\* cleanup() as far as it runs without an outside event: with no server object
\* it is done; OpenscanServer.stop calls WebappService.stop, which with no
\* http server is done too, and otherwise destroys the connections and waits
\* for the callback of close. Once done, the handler calls process.exit.
cleanup(s) ==
    IF webappServer = "null"
    THEN /\ exited' = TRUE
         /\ pc' = [pc EXCEPT ![s] = "done"]
         /\ UNCHANGED <<webappServer, webappService, server, connections, stopCalls>>
    ELSE IF webappService = "null"
    THEN /\ webappServer' = "null"
         /\ exited' = TRUE
         /\ pc' = [pc EXCEPT ![s] = "done"]
         /\ UNCHANGED <<webappService, server, connections, stopCalls>>
    ELSE /\ stopCalls' = stopCalls + 1
         /\ IF server = "null"
            THEN /\ webappService' = "null"
                 /\ webappServer' = "null"
                 /\ exited' = TRUE
                 /\ pc' = [pc EXCEPT ![s] = "done"]
                 /\ UNCHANGED <<server, connections>>
            ELSE /\ connections' = {}
                 /\ server' = "closing"
                 /\ pc' = [pc EXCEPT ![s] = "close"]
                 /\ UNCHANGED <<webappServer, webappService, exited>>

\* a signal handler that starts cleanup whatever cleanupInProgress says
onSignalUnguarded(s) ==
    /\ ~exited
    /\ UNCHANGED trackerIdle
    /\ pc[s] = "none"
    /\ cleanupInProgress' = TRUE
    /\ cleanup(s)
    /\ UNCHANGED <<webappStarted, tracker, result, portAvailable, portBusy, compiledArtifacts>>

\* the handler of SIGINT or SIGTERM
onSignal(s) ==
    /\ ~exited
    /\ UNCHANGED trackerIdle
    /\ pc[s] = "none"
    /\ IF cleanupInProgress
       THEN /\ pc' = [pc EXCEPT ![s] = "ignored"]
            /\ UNCHANGED <<cleanupInProgress, webappServer, webappService, server,
                           connections, exited, stopCalls>>
       ELSE /\ cleanupInProgress' = TRUE
            /\ cleanup(s)
    /\ UNCHANGED <<webappStarted, tracker, result, portAvailable, portBusy, compiledArtifacts>>

\* the callback of close: WebappService.stop resolves, OpenscanServer.stop and
\* cleanup go on, and the handler calls process.exit
onClose(s) ==
    /\ ~exited
    /\ UNCHANGED trackerIdle
    /\ pc[s] = "close"
    /\ server' = "null"
    /\ webappService' = "null"
    /\ webappServer' = "null"
    /\ exited' = TRUE
    /\ pc' = [pc EXCEPT ![s] = "done"]
    /\ UNCHANGED <<webappStarted, tracker, cleanupInProgress, connections, result,
                   portAvailable, portBusy, stopCalls, compiledArtifacts>>

InitHooks ==
    /\ artifactsDir = [exists |-> TRUE,
                       entries |-> <<File("A", JsonSuffix, DocA), File("B", JsonSuffix, DocB)>>]
    /\ sourceFile = "present"
    /\ buildInfoFile = "present"
    /\ ignition = NoIgnition
    /\ compiledArtifacts = <<>>
    /\ pendingTxs = EmptyMap
    /\ trackedDeployments = EmptyMap
    /\ heap = EmptyMap
    /\ hasLoggedArtifacts = FALSE
    /\ foundLogs = 0
    /\ returned = EmptyMap
    /\ lastSend = NoSend
    /\ request = NoRequest
    /\ PluginLoaded
    /\ portBusy \in BOOLEAN
    /\ last = Called("none", "", <<>>, "ok")

NextHooks ==
    \/ \E h \in Hooks : newConnection(h)
    \/ \E h \in Hooks : newConnectionAfterNext(h)
    \/ \E h \in Hooks : isPortAvailable(h)
    \/ \E h \in Hooks : startWebapp(h)
    \/ \E h \in Hooks : waitForReady(h)
    \/ \E h \in Hooks : openBrowser(h)
    \/ \E c \in Conns : onConnection(c)
    \/ \E c \in Conns : onConnectionClose(c)
    \/ PortTaken
    \/ PortFreed
    \/ \E s \in Signals : onSignal(s)
    \/ \E s \in Signals : onClose(s)

SpecHooks == InitHooks /\ [][NextHooks]_vars

\* C18: when the port check of the first connection finds port 3030 occupied,
\* startup raises an error: the newConnection call that ran startWebapp does
\* not give its caller the connection.
C18_OccupiedPortFailsFast ==
    [][ \A h \in Hooks :
          (pc[h] = "startWebapp" /\ portAvailable = "no" /\ pc'[h] = "done")
          => result'[h] = "error" ]_vars

\* the http server got to listen: startWebapp went past listen()
ServerWasListening ==
    \/ \E h \in Hooks : pc[h] \in {"waitForReady", "openBrowser"}
    \/ portAvailable = "yes" /\ \A h \in Hooks : result[h] = "connection"

\* C19: WebappService.stop is called at most once however many signals come,
\* and when the process has exited the http server the plugin had created is
\* closed, the references to the server are null and no connection is tracked.
C19_CleanupOnceBeforeExit ==
    /\ stopCalls <= 1
    /\ exited =>
         /\ server = "null"
         /\ webappService = "null"
         /\ webappServer = "null"
         /\ connections = {}
         /\ ServerWasListening => stopCalls = 1

\* both signals came while the explorer was running: one stopped the server,
\* the other found the cleanup in progress, and the process exited
C19_Witness ==
    /\ exited
    /\ stopCalls = 1
    /\ \E s \in Signals : pc[s] = "ignored"
    /\ portAvailable = "yes"
    /\ \A h \in Hooks : result[h] = "connection"

(***************************************************************************)
(* A session after the first newConnection call returned: the explorer is *)
(* listening and the tracker built, or the port was busy and there is no   *)
(* tracker. onRequest hands the intercepted requests to the tracker, the   *)
(* pages served call the artifactLoader, and the project's files change.   *)
(***************************************************************************)
Rpc(method, hash, to, data, mined, contractAddress) ==
    [method |-> method, hash |-> hash, to |-> to, data |-> data, mined |-> mined,
     contractAddress |-> contractAddress]

\* the requests next() answered: eth_sendTransaction with and without a hash
\* in the response, a "to" and a data, eth_getTransactionReceipt for a mined
\* deployment, a mined call and a transaction not yet mined, and eth_accounts
SessionRequests ==
    {Rpc("eth_sendTransaction", "t1", Absent, JStr(d), FALSE, Absent) : d \in {Bc6a, Bc6A0}} \cup
    {Rpc("eth_sendTransaction", "t2", Absent, JStr(Bc6A0), FALSE, Absent)} \cup
    {Rpc("eth_sendTransaction", "t1", to, data, FALSE, Absent) :
        to \in {JStr(<<>>), JStr(Addr0xAB)}, data \in {JStr(Bc6a)}} \cup
    {Rpc("eth_sendTransaction", "t1", Absent, data, FALSE, Absent) :
        data \in {Absent, JStr(<<>>)}} \cup
    {Rpc("eth_sendTransaction", "", Absent, JStr(Bc6a), FALSE, Absent)} \cup
    {Rpc("eth_getTransactionReceipt", "t1", Absent, Absent, TRUE, JStr(<<"0", "x", "A", "b">>)),
     Rpc("eth_getTransactionReceipt", "t2", Absent, Absent, TRUE, JStr(<<"0", "x", "c", "d">>))}
    \cup
    {Rpc("eth_getTransactionReceipt", "t1", JStr(Addr0xAB), Absent, mined, Absent) :
        mined \in BOOLEAN} \cup
    {Rpc("eth_accounts", "", Absent, Absent, FALSE, Absent)}

\* onRequest tracking every transaction that has data, whatever its "to"
onRequestAnyTo(req) ==
    /\ IF /\ req.method = "eth_sendTransaction"
          /\ req.hash # ""
          /\ tracker = "tracker" /\ Truthy(req.data)
       THEN /\ trackSendTransaction(req.hash, req.data.val)
            /\ lastSend' = [tx |-> req.hash, data |-> req.data.val,
                            had |-> req.hash \in DOMAIN pendingTxs,
                            old |-> IF req.hash \in DOMAIN pendingTxs
                                    THEN pendingTxs[req.hash] ELSE <<>>]
       ELSE IF /\ req.method = "eth_getTransactionReceipt"
               /\ req.mined
               /\ Truthy(req.contractAddress)
               /\ tracker = "tracker"
       THEN /\ trackDeploymentReceipt(req.hash, req.contractAddress.val)
            /\ UNCHANGED lastSend
       ELSE /\ last' = Called("skip", req.hash, <<>>, "ok")
            /\ UNCHANGED <<pendingTxs, trackedDeployments, heap, lastSend>>
    /\ request' = [answer |-> IF last'.outcome = "raised" THEN "threw" ELSE "result"] @@ req

\* onRequest after next() resolved; what it logs is left out.  request.answer
\* is how the call ends: it returns the result next() gave ("result", line 180)
\* or the exception of a tracker call leaves it ("threw")
onRequest(req) ==
    /\ IF /\ req.method = "eth_sendTransaction"
          /\ req.hash # ""
          /\ tracker = "tracker" /\ Truthy(req.data) /\ ~Truthy(req.to)
       THEN /\ trackSendTransaction(req.hash, req.data.val)
            /\ lastSend' = [tx |-> req.hash, data |-> req.data.val,
                            had |-> req.hash \in DOMAIN pendingTxs,
                            old |-> IF req.hash \in DOMAIN pendingTxs
                                    THEN pendingTxs[req.hash] ELSE <<>>]
       ELSE IF /\ req.method = "eth_getTransactionReceipt"
               /\ req.mined
               /\ Truthy(req.contractAddress)
               /\ tracker = "tracker"
       THEN /\ trackDeploymentReceipt(req.hash, req.contractAddress.val)
            /\ UNCHANGED lastSend
       ELSE /\ last' = Called("skip", req.hash, <<>>, "ok")
            /\ UNCHANGED <<pendingTxs, trackedDeployments, heap, lastSend>>
    /\ request' = [answer |-> IF last'.outcome = "raised" THEN "threw" ELSE "result"] @@ req

\* the contracts source and the build-info file at the start of a session
SessionStatuses ==
    { <<"missing", "unparseable">>, <<"unreadable", "missing">>, <<"present", "unreadable">> }

\* the artifact files at the start of a session
SessionFiles ==
    { <<File("B", JsonSuffix, DocB)>>,
      <<File("A", JsonSuffix, DocA), File("B", JsonSuffix, DocB)>>,
      <<File("N", JsonSuffix, DocN), File("A", JsonSuffix, DocA)>> }

\* the module state startWebapp leaves: the explorer started, or only a warning
Started ==
    /\ webappStarted = TRUE
    /\ cleanupInProgress = FALSE
    /\ connections = {}
    /\ pc = [p \in Hooks \cup Signals |-> IF p = "h1" THEN "done" ELSE "none"]
    /\ result = [h \in Hooks |-> IF h = "h1" THEN "connection" ELSE "pending"]
    /\ exited = FALSE
    /\ stopCalls = 0
    /\ \/ /\ portBusy = FALSE /\ portAvailable = "yes"
          /\ tracker = "tracker" /\ webappServer = "server" /\ webappService = "service"
          /\ server = "listening"
          /\ compiledArtifacts = loadCompiledArtifacts(artifactsDir)
       \/ /\ portBusy = TRUE /\ portAvailable = "no"
          /\ tracker = "null" /\ webappServer = "null" /\ webappService = "null"
          /\ server = "null"
          /\ compiledArtifacts = <<>>

InitSession ==
    /\ \E files \in SessionFiles : artifactsDir = [exists |-> TRUE, entries |-> files]
    /\ \E status \in SessionStatuses : sourceFile = status[1] /\ buildInfoFile = status[2]
    /\ ignition = NoIgnition
    /\ Started
    /\ pendingTxs = EmptyMap
    /\ trackedDeployments = EmptyMap
    /\ heap = EmptyMap
    /\ hasLoggedArtifacts = FALSE
    /\ foundLogs = 0
    /\ returned = EmptyMap
    /\ lastSend = NoSend
    /\ request = NoRequest
    /\ last = Called("none", "", <<>>, "ok")

OnRequest ==
    /\ ~exited
    /\ \E req \in SessionRequests : onRequest(req)
    /\ UNCHANGED <<plugin, disk, compiledArtifacts, hasLoggedArtifacts, foundLogs, returned>>

\* the project is compiled again and has one artifact file more
Compile ==
    /\ Len(artifactsDir.entries) = 1
    /\ \E f \in ProjectFiles \ {File("I", JsonSuffix, DocI), artifactsDir.entries[1]} :
           artifactsDir' = [artifactsDir EXCEPT !.entries = Append(@, f)]
    /\ UNCHANGED <<sourceFile, buildInfoFile>>

\* the source and the build-info file are written anew
Rewrite ==
    /\ <<sourceFile, buildInfoFile>> # <<"present", "present">>
    /\ sourceFile' = "present"
    /\ buildInfoFile' = "present"
    /\ UNCHANGED artifactsDir

DiskChanges ==
    /\ Compile \/ Rewrite
    /\ UNCHANGED <<plugin, request, lastSend, ignition, compiledArtifacts, pendingTxs,
                   trackedDeployments, heap, hasLoggedArtifacts, foundLogs, returned, last>>

NextSession ==
    \/ OnRequest
    \/ DiskChanges
    \/ server = "listening" /\ Aggregate

SpecSession == InitSession /\ [][NextSession]_vars

\* the step is a receipt that consumed the pending entry of its transaction
Consumed ==
    /\ last'.op = "receipt"
    /\ last'.tx \in DOMAIN pendingTxs
    /\ last'.tx \notin DOMAIN pendingTxs'

\* the entry tracked under the address of the last receipt
Stored == Deref(getArtifacts, heap)[toLowerCase(last.addr)]

\* C21: when the creation data has several candidates, artifacts whose
\* bytecode of more than 2 characters is a prefix of it, the entry a receipt
\* stores is built from the first of them in scan order and from no later one.
C21_FirstCandidateWins ==
    [][ (Consumed /\ last'.outcome = "stored")
        => LET d == pendingTxs[last'.tx]
           IN /\ Candidates(d) # {}
              /\ BuiltFrom(Stored', FirstCandidate(d))
              /\ \A j \in Candidates(d) \ {FirstCandidate(d)} : ~BuiltFrom(Stored', j)
      ]_vars

\* the data sent last has two candidates, the second with the longer
\* bytecode, and its receipt stored the entry of the first
C21_Witness ==
    /\ last.op = "receipt"
    /\ last.outcome = "stored"
    /\ last.tx = lastSend.tx
    /\ Candidates(lastSend.data) = {1, 2}
    /\ Len(compiledArtifacts[2].bytecode.val) > Len(compiledArtifacts[1].bytecode.val)
    /\ BuiltFrom(Stored, 1)
    /\ ~BuiltFrom(Stored, 2)

\* C22: whatever the compiled-artifact tree holds, an intercepted
\* eth_getTransactionReceipt request is answered: the tracker call onRequest
\* makes for it does not raise.
C22_ReceiptRequestNeverRaises ==
    request.method = "eth_getTransactionReceipt" => last.outcome # "raised"

\* the step is onRequest handling an eth_sendTransaction request
SendHandled ==
    /\ request'.method = "eth_sendTransaction"
    /\ last'.op \in {"send", "skip"}
    /\ UNCHANGED disk

\* the request is a deployment the tracker is told of
Deploys(req) ==
    /\ tracker = "tracker"
    /\ req.hash # ""
    /\ ~Truthy(req.to)
    /\ Truthy(req.data)

\* C23: handling an eth_sendTransaction request puts its data in the pending
\* map under the hash of the response if and only if a tracker exists, the
\* response has a hash, the request has no "to" or an empty one and has
\* non-empty data; otherwise the pending map stays as it is, and no other step
\* gives the pending map a new hash.
C23_PendingIffDeployment ==
    [][ /\ SendHandled =>
              IF Deploys(request')
              THEN pendingTxs' = Put(pendingTxs, request'.hash, request'.data.val)
              ELSE pendingTxs' = pendingTxs
        /\ DOMAIN pendingTxs' \ DOMAIN pendingTxs # {} => SendHandled /\ Deploys(request')
      ]_vars

\* a transaction with an empty "to" and data became pending
C23_Witness ==
    /\ request.method = "eth_sendTransaction"
    /\ request.to = JStr(<<>>)
    /\ last.op = "send"
    /\ request.hash \in DOMAIN pendingTxs
    /\ pendingTxs[request.hash] = request.data.val

\* the calls of newConnection that are inside startWebapp
Starting ==
    {h \in Hooks : pc[h] \in {"isPortAvailable", "startWebapp", "waitForReady", "openBrowser"}}

\* C24: however the newConnection calls interleave, startWebapp is entered
\* at most once, by a call that finds webappStarted false and sets it for
\* good, so that no later call starts it again whether it succeeded, warned
\* or threw; and a DeploymentTracker is built only when there is none.
C24_StartupAtMostOnce ==
    /\ [](Cardinality(Starting) <= 1)
    /\ [][ /\ \A h \in Hooks :
                (pc[h] = "next" /\ pc'[h] = "isPortAvailable")
                => ~webappStarted /\ webappStarted'
           /\ webappStarted => webappStarted'
           /\ \A h \in Hooks :
                (pc[h] = "startWebapp" /\ pc'[h] # "startWebapp" /\ portAvailable = "yes")
                => tracker = "null" /\ tracker' = "tracker"
           /\ tracker' # tracker => tracker = "null"
         ]_vars

\* the first call threw inside startWebapp after the tracker was built, and
\* the other call returned its connection without starting again
C24_Witness ==
    /\ \A h \in Hooks : pc[h] = "done"
    /\ \E h \in Hooks : result[h] = "error"
    /\ \E h \in Hooks : result[h] = "connection"
    /\ webappStarted
    /\ tracker = "tracker"

\* C25: transactions with distinct hashes and addresses do not interfere,
\* however their submits and receipts interleave: a receipt removes the pending
\* entry of its own hash only, stores an entry exactly when its own creation
\* data has a match, builds it from that data and its own address, and leaves
\* the entries of the other addresses as they are; a submit touches neither
\* the pending entries of other hashes nor the tracked deployments.
C25_TransactionsDoNotInterfere ==
    [][ /\ Consumed =>
              LET d == pendingTxs[last'.tx]
                  m == findMatchingArtifact(compiledArtifacts, d)
              IN /\ pendingTxs' = Remove(pendingTxs, last'.tx)
                 /\ OthersUnchanged(toLowerCase(last'.addr))
                 /\ last'.outcome = "stored" <=> m.found
                 /\ IF m.found
                    THEN Stored' = newEntry(compiledArtifacts[m.index], last'.addr)
                    ELSE UNCHANGED <<trackedDeployments, heap>>
        /\ SendHandled =>
              /\ UNCHANGED <<trackedDeployments, heap>>
              /\ \A tx \in DOMAIN pendingTxs \ {request'.hash} :
                    tx \in DOMAIN pendingTxs' /\ pendingTxs'[tx] = pendingTxs[tx]
      ]_vars

\* t1 was submitted, then t2, and the receipt of t1 stored its entry while
\* t2 was pending
C25_Witness ==
    /\ last.op = "receipt"
    /\ last.tx = "t1"
    /\ last.outcome = "stored"
    /\ lastSend.tx = "t2"
    /\ "t2" \in DOMAIN pendingTxs

\* C26: the pending entry of a hash goes away only in a receipt for that
\* hash, and changes only in a submit for that hash: the calls of getArtifacts
\* and the submits and receipts of other hashes leave it as it is.
C26_PendingRemovedByOwnReceipt ==
    [][ \A tx \in DOMAIN pendingTxs :
          /\ tx \notin DOMAIN pendingTxs' =>
                /\ request'.method = "eth_getTransactionReceipt"
                /\ last'.op = "receipt"
                /\ last'.tx = tx
          /\ (tx \in DOMAIN pendingTxs' /\ pendingTxs'[tx] # pendingTxs[tx]) =>
                /\ SendHandled
                /\ request'.hash = tx
      ]_vars

\* t1 is pending since before t2 was submitted; t2 got its receipt and the
\* artifactLoader called getArtifacts
C26_Witness ==
    /\ "t1" \in DOMAIN pendingTxs
    /\ lastSend.tx = "t2"
    /\ "t2" \notin DOMAIN pendingTxs
    /\ trackedDeployments # EmptyMap
    /\ last.op = "aggregate"

\* C27: a receipt whose creation data matches an artifact stores the entry
\* under the lowercased address whatever the state of the source file and of
\* the build-info file: the entry has the artifact's name and abi and the
\* address, and has a sourceCode or a buildInfo only if the file was there,
\* readable and parseable; no later step adds them to an entry: an entry
\* changes only in a receipt for its address.
C27_EnrichmentNeverFailsMatch ==
    [][ /\ (Consumed /\ Candidates(pendingTxs[last'.tx]) # {}) =>
              LET i == FirstCandidate(pendingTxs[last'.tx])
              IN /\ last'.outcome = "stored"
                 /\ toLowerCase(last'.addr) \in DOMAIN trackedDeployments'
                 /\ BuiltFrom(Stored', i)
                 /\ Stored'.deployments = <<last'.addr>>
                 /\ Stored'.sourceCode # Absent => sourceFile = "present"
                 /\ Stored'.buildInfo # Absent => buildInfoFile = "present"
        /\ \A k \in DOMAIN trackedDeployments :
              (k \notin DOMAIN trackedDeployments'
                 \/ Deref(getArtifacts, heap)'[k] # Deref(getArtifacts, heap)[k])
              => Consumed /\ toLowerCase(last'.addr) = k
      ]_vars

\* deployed_addresses.json has a key whose segment after "#" is the
\* contractName of the artifact file f
Resolvable(f) ==
    /\ f.doc.parse = "ok"
    /\ Truthy(f.doc.contractName)
    /\ \E j \in 1..Len(ignition.entries) :
          secondSegment(ignition.entries[j].key) = f.doc.contractName

\* C28: with deployed_addresses.json and the artifacts directory in place,
\* loadArtifacts returns, and its map has an entry for an artifact file if and
\* only if the file parses, has a contractName and deployed_addresses.json has
\* a key for that name; each entry has deployments equal to the one-element
\* list of the address under such a key.
C28_EntryIffResolvable ==
    ( /\ last.op = "load"
      /\ HasAddresses
      /\ ignition.addresses = "ok"
      /\ ignition.artifacts.exists )
    => /\ last.outcome = "ok"
       /\ \A i \in 1..Len(ignition.artifacts.files) :
             LET f == ignition.artifacts.files[i]
             IN endsWith(f.name, JsonSuffix) =>
                  ( Resolvable(f) <=>
                      \E k \in DOMAIN last.map :
                          last.map[k].contractName = f.doc.contractName )
       /\ \A k \in DOMAIN last.map :
             \E j \in 1..Len(ignition.entries) :
                 /\ secondSegment(ignition.entries[j].key) = last.map[k].contractName
                 /\ ignition.entries[j].value.kind = "string"
                 /\ last.map[k].deployments = <<ignition.entries[j].value.val>>

\* the token is an opening body tag, with or without attributes
OpensBody(t) == t \in {BodyTag, "<body class=dark>"}

\* C29: an HTML page served while the aggregated map has an entry is the
\* page's own text with the script fragment built from the map put right after
\* its opening body tag, whatever the form of the tag, and nothing else
\* changed.
C29_ScriptAfterBodyTag ==
    (ServedHtml /\ LoadedMap) =>
        \E i \in 1..Len(last.file.data) :
            LET page == last.file.data
                fragment == scriptTagOf(last.loader.map)
            IN /\ OpensBody(page[i])
               /\ last.body = SubSeq(page, 1, i) \o fragment \o SubSeq(page, i + 1, Len(page))

\* the artifacts a tracker built now would have and this tracker has not
CompiledSince ==
    {a \in Range(loadCompiledArtifacts(artifactsDir)) : a \notin Range(compiledArtifacts)}

\* C30: once the tracker is built its compiled artifacts stay as they are,
\* whatever is sent, received, asked of getArtifacts or compiled on disk; a
\* receipt whose creation data matches none of them stores nothing, and an
\* entry a receipt stores has the name of one of them.
C30_CompiledArtifactsAreSnapshot ==
    [][ /\ compiledArtifacts' = compiledArtifacts
        /\ Consumed =>
              /\ Candidates(pendingTxs[last'.tx]) = {} =>
                    /\ last'.outcome # "stored"
                    /\ UNCHANGED <<trackedDeployments, heap>>
              /\ last'.outcome = "stored" =>
                    \E a \in Range(compiledArtifacts) : Stored'.contractName = a.contractName
      ]_vars

\* an artifact was compiled during the session whose bytecode is a prefix of
\* the data sent last, and the receipt of that transaction found no match
C30_Witness ==
    /\ last.op = "receipt"
    /\ last.outcome = "nomatch"
    /\ last.tx = lastSend.tx
    /\ tracker = "tracker"
    /\ \E a \in CompiledSince :
          /\ a.bytecode.kind = "string"
          /\ Len(a.bytecode.val) > 2
          /\ startsWith(toLowerCase(lastSend.data), toLowerCase(a.bytecode.val))

(***************************************************************************)
(* The match as a function of the letter case: a tracker with one artifact *)
(* whose bytecode is written in some letter case, and creation data        *)
(* written in some letter case.                                            *)
(***************************************************************************)
\* "0x6a" and "0x6a0" in every letter case, "0x" in both, and "0x6b"
CaseStrings ==
    {<<"0", x, "6", a>> \o z : x \in {"x", "X"}, a \in {"a", "A"}, z \in {<<>>, <<"0">>}}
    \cup {<<"0", "x">>, <<"0", "X">>, <<"0", "x", "6", "b">>}

InitCase ==
    /\ \E b \in CaseStrings :
           artifactsDir = [exists |-> TRUE,
                           entries |-> <<File("A", JsonSuffix, [DocA EXCEPT !.bytecode = JStr(b)])>>]
    /\ sourceFile = "missing"
    /\ buildInfoFile = "missing"
    /\ ignition = NoIgnition
    /\ compiledArtifacts = loadCompiledArtifacts(artifactsDir)
    /\ pendingTxs = EmptyMap
    /\ trackedDeployments = EmptyMap
    /\ heap = EmptyMap
    /\ hasLoggedArtifacts = FALSE
    /\ foundLogs = 0
    /\ returned = EmptyMap
    /\ lastSend = NoSend
    /\ request = NoRequest
    /\ PluginLoaded /\ portBusy = FALSE
    /\ last = Called("new", "", <<>>, "ok")

NextCase ==
    \/ /\ \E data \in CaseStrings :
              /\ trackSendTransaction("t1", data)
              /\ lastSend' = [tx |-> "t1", data |-> data,
                              had |-> "t1" \in DOMAIN pendingTxs,
                              old |-> IF "t1" \in DOMAIN pendingTxs THEN pendingTxs["t1"]
                                                                    ELSE <<>>]
       /\ UNCHANGED <<plugin, request, disk, compiledArtifacts, hasLoggedArtifacts, foundLogs,
                      returned>>
    \/ /\ \E contractAddress \in Addresses : trackDeploymentReceipt("t1", contractAddress)
       /\ UNCHANGED <<plugin, request, lastSend, disk, compiledArtifacts, hasLoggedArtifacts,
                      foundLogs, returned>>

SpecCase == InitCase /\ [][NextCase]_vars

\* artifact i matches the creation data d: its bytecode, a string of more than
\* 2 characters, is a prefix of d once both are written in lowercase
MatchesFolded(i, d) ==
    /\ Len(compiledArtifacts[i].bytecode.val) > 2
    /\ \A k \in 1..Len(compiledArtifacts[i].bytecode.val) :
           /\ k <= Len(d)
           /\ LowerChar(d[k]) = LowerChar(compiledArtifacts[i].bytecode.val[k])

\* C31: matching is case-insensitive on both sides: a receipt stores an entry
\* exactly when the bytecode of the artifact, longer than 2 characters, is a
\* prefix of the creation data once both are in lowercase, and the creation
\* data written in any other letter case has the same match.
C31_MatchIgnoresLetterCase ==
    [][ (last'.op = "receipt" /\ last'.tx \in DOMAIN pendingTxs)
        => LET d == pendingTxs[last'.tx]
           IN /\ last'.outcome = "stored" <=> \E i \in 1..Len(compiledArtifacts) : MatchesFolded(i, d)
              /\ last'.outcome = "stored" => BuiltFrom(Stored', 1)
              /\ \A d2 \in CaseStrings :
                    toLowerCase(d2) = toLowerCase(d) =>
                        findMatchingArtifact(compiledArtifacts, d2)
                            = findMatchingArtifact(compiledArtifacts, d)
      ]_vars

\* a receipt stored an entry for creation data and a bytecode that differ in
\* letter case both ways: an uppercase letter of the data is lowercase in the
\* bytecode and an uppercase letter of the bytecode is lowercase in the data
C31_Witness ==
    /\ last.op = "receipt"
    /\ last.outcome = "stored"
    /\ last.tx = lastSend.tx
    /\ Len(compiledArtifacts) = 1
    /\ LET b == compiledArtifacts[1].bytecode.val
           d == lastSend.data
       IN \E i, j \in 1..Len(b) :
              /\ d[i] \in UpperChars /\ b[i] \notin UpperChars
              /\ b[j] \in UpperChars /\ d[j] \notin UpperChars

(***************************************************************************)
(* Claims about repeated receipts.                                         *)
(***************************************************************************)
\* nothing is pending for the hash that a receipt could consume
Spent(txHash) == txHash \notin DOMAIN pendingTxs \/ pendingTxs[txHash] = <<>>

\* C32: a pending deployment is consumed at most once: a receipt leaves its
\* hash with nothing to consume, only a send of that hash makes it pending
\* again, and a receipt for a hash with nothing to consume, whatever its
\* address, changes neither the tracked map nor the pending map.
C32_ConsumedAtMostOnce ==
    [][ /\ \A txHash \in TxHashes :
              /\ (last'.op = "receipt" /\ last'.tx = txHash) => Spent(txHash)'
              /\ (Spent(txHash) /\ ~(last'.op = "send" /\ last'.tx = txHash)) => Spent(txHash)'
              /\ (last'.op = "receipt" /\ last'.tx = txHash /\ Spent(txHash)) =>
                    /\ last'.outcome = "unknown"
                    /\ UNCHANGED <<pendingTxs, trackedDeployments, heap>>
        /\ (last.op = "receipt" /\ last'.op = "receipt" /\ last'.tx = last.tx) =>
              UNCHANGED <<pendingTxs, trackedDeployments, heap>>
      ]_vars

\* the hash sent last, with data that matches an artifact, got a receipt that
\* stored its entry; a receipt of the same hash with another address came and
\* stored nothing
C32_Witness ==
    /\ last.op = "receipt"
    /\ last.outcome = "unknown"
    /\ last.tx = lastSend.tx
    /\ Candidates(lastSend.data) # {}
    /\ pendingTxs = EmptyMap
    /\ Cardinality(DOMAIN trackedDeployments) = 1
    /\ toLowerCase(last.addr) \notin DOMAIN trackedDeployments

(***************************************************************************)
(* loadIgnitionArtifacts on a record set with several deployed addresses.  *)
(***************************************************************************)
MaxEntries == 2      \* properties of deployed_addresses.json

InitLoad ==
    /\ artifactsDir = [exists |-> FALSE, entries |-> <<>>]
    /\ sourceFile = "present"
    /\ buildInfoFile = "present"
    /\ \E e \in {x \in SeqsUpTo(IgnitionEntries, MaxEntries) : Injective(x)},
          f \in IgnitionFiles :
           ignition = [root |-> TRUE, addresses |-> "ok", entries |-> e,
                       artifacts |-> [exists |-> TRUE, files |-> <<f>>],
                       buildInfo |-> "present"]
    /\ compiledArtifacts = loadCompiledArtifacts(artifactsDir)
    /\ pendingTxs = EmptyMap
    /\ trackedDeployments = EmptyMap
    /\ heap = EmptyMap
    /\ hasLoggedArtifacts = FALSE
    /\ foundLogs = 0
    /\ returned = EmptyMap
    /\ lastSend = NoSend
    /\ request = NoRequest
    /\ PluginLoaded /\ portBusy = FALSE
    /\ last = Called("new", "", <<>>, "ok")

NextLoad == LoadIgnition \/ Aggregate

SpecLoad == InitLoad /\ [][NextLoad]_vars

\* the artifacts directory has a parseable *.json artifact of that contract name
HasArtifactNamed(name) ==
    \E i \in 1..Len(ignition.artifacts.files) :
        LET f == ignition.artifacts.files[i]
        IN /\ endsWith(f.name, JsonSuffix)
           /\ f.doc.parse = "ok"
           /\ f.doc.contractName = name

\* C33: the structured load is complete: for every key "Module#Name" of
\* deployed_addresses.json with an address, when the artifacts directory has
\* a parseable artifact with contractName Name, the returned map has the key
\* lowercase(address), also when two modules deploy a contract of the same
\* name at different addresses.
C33_EveryDeployedAddressLoaded ==
    last.op = "load" =>
        \A j \in 1..Len(ignition.entries) :
            LET name == secondSegment(ignition.entries[j].key)
                address == ignition.entries[j].value
            IN (Truthy(name) /\ address.kind = "string" /\ HasArtifactNamed(name))
               => /\ last.outcome = "ok"
                  /\ toLowerCase(address.val) \in DOMAIN last.map

(***************************************************************************)
(* Claims about the origin of the tracked entries.                         *)
(***************************************************************************)
\* the contract addresses of the receipts a session can see
ReceiptAddresses ==
    {req.contractAddress.val : req \in {x \in SessionRequests :
        x.method = "eth_getTransactionReceipt" /\ Truthy(x.contractAddress)}}

\* C34: every entry of the tracked map has the contractName and abi of a
\* compiled artifact of the snapshot whose bytecode has more than 2 characters,
\* under the lowercase of an address a receipt carried; an entry comes into the
\* map only by a receipt, built from an artifact whose bytecode is a prefix,
\* letter case aside, of the data pending for its hash, and data becomes
\* pending only by a trackSendTransaction call with that data.
C34_EntriesComeFromSnapshot ==
    /\ [](\A k \in DOMAIN trackedDeployments :
             LET entry == Deref(getArtifacts, heap)[k]
             IN /\ \E i \in 1..Len(compiledArtifacts) :
                       /\ compiledArtifacts[i].bytecode.kind = "string"
                       /\ Len(compiledArtifacts[i].bytecode.val) > 2
                       /\ BuiltFrom(entry, i)
                /\ \E a \in ReceiptAddresses : k = toLowerCase(a))
    /\ [][ /\ \A txHash \in DOMAIN pendingTxs' :
                 (txHash \notin DOMAIN pendingTxs \/ pendingTxs'[txHash] # pendingTxs[txHash])
                 => /\ SendHandled /\ last'.op = "send"
                    /\ request'.hash = txHash
                    /\ pendingTxs'[txHash] = request'.data.val
           /\ \A k \in DOMAIN trackedDeployments' :
                 (k \notin DOMAIN trackedDeployments
                    \/ Deref(getArtifacts, heap)'[k] # Deref(getArtifacts, heap)[k])
                 => /\ Consumed /\ last'.outcome = "stored"
                    /\ request'.method = "eth_getTransactionReceipt"
                    /\ k = toLowerCase(request'.contractAddress.val)
                    /\ \E i \in Candidates(pendingTxs[last'.tx]) :
                           BuiltFrom(Deref(getArtifacts, heap)'[k], i)
           /\ DOMAIN trackedDeployments \subseteq DOMAIN trackedDeployments'
         ]_vars

\* two deployments are tracked, and an artifact was compiled since the
\* tracker was built
C34_Witness ==
    /\ Cardinality(DOMAIN trackedDeployments) = 2
    /\ last.op = "receipt"
    /\ last.outcome = "stored"
    /\ CompiledSince # {}

(***************************************************************************)
(* Claims about the payload the browser receives.                          *)
(***************************************************************************)
\* C35: whatever the AddressMap holds, the string literal of the injected
\* script evaluates to JSON.stringify(map): once the script has run, the
\* value under OPENSCAN_ARTIFACTS_JSON_V1 is the JSON text of the map the
\* loader returned.
C35_PayloadIsStringifiedMap ==
    (ServedHtml /\ LoadedMap /\ InjectedAt(last.body) > 0) =>
        LET stored == ClientStored(last.body)
        IN  /\ stored.set
            /\ stored.value = stringifyMap(last.loader.map)

(***************************************************************************)
(* Claims about the interception of requests.                              *)
(***************************************************************************)
\* C36: interception is transparent: whatever the method of the request, and
\* whether or not a tracker exists or a deployment is tracked, onRequest
\* returns the result next() produced.
C36_RequestAnsweredWithResult ==
    request.method # "none" => request.answer = "result"

(***************************************************************************)
(* WebappService.handleRequest: the file a request URL is answered with.   *)
(* A path or URL is a sequence of tokens, "/" being one of them; the text  *)
(* it stands for is the concatenation of its tokens.                       *)
(***************************************************************************)
MaxUrl == 4          \* tokens of a request URL

DistPath == <<"/", "dist">>
IndexPath == DistPath \o <<"/", "index.html">>

\* the regular files of the machine: two inside dist, one above it, and one
\* whose name begins like the name of dist
DiskFiles(index) ==
    {DistPath \o <<"/", "app.js">>, <<"/", "secret.txt">>, <<"/", "dist", "-secret">>}
    \cup (IF index = "present" THEN {IndexPath} ELSE {})

UrlTokens ==
    {"/", "..", ".", "app.js", "index.html", "secret.txt", "dist", "-secret", "?", "#",
     Backslash}

\* request URLs; two "." tokens in a row would spell "..", which is a token
Urls ==
    {u \in SeqsUpTo(UrlTokens, MaxUrl) :
        \A i \in 1..(Len(u) - 1) : ~(u[i] = "." /\ u[i + 1] = ".")}

\* filePath.substring(0, filePath.indexOf(c)) when c occurs
cutAt(filePath, c) ==
    IF IndexOf(filePath, c) = 0 THEN filePath
    ELSE SubSeq(filePath, 1, IndexOf(filePath, c) - 1)

RECURSIVE segmentsOf(_)
\* the path split at its separators
segmentsOf(p) ==
    IF p = <<>> THEN << <<>> >>
    ELSE LET rest == segmentsOf(Tail(p))
         IN IF Head(p) = "/" THEN << <<>> >> \o rest
            ELSE << <<Head(p)>> \o Head(rest) >> \o Tail(rest)

RECURSIVE collapse(_, _, _)
\* normalizeString of node:path: "." and empty segments dropped, ".." taking
\* back the segment before it, kept in front of a relative path
collapse(segs, done, absolute) ==
    IF segs = <<>> THEN done
    ELSE LET s == Head(segs)
         IN IF s = <<>> \/ s = <<".">> THEN collapse(Tail(segs), done, absolute)
            ELSE IF s = <<"..">>
            THEN IF done # <<>> /\ done[Len(done)] # <<"..">>
                 THEN collapse(Tail(segs), SubSeq(done, 1, Len(done) - 1), absolute)
                 ELSE IF absolute THEN collapse(Tail(segs), done, absolute)
                 ELSE collapse(Tail(segs), Append(done, s), absolute)
            ELSE collapse(Tail(segs), Append(done, s), absolute)

RECURSIVE joinSegments(_)
joinSegments(segs) ==
    IF segs = <<>> THEN <<>>
    ELSE IF Len(segs) = 1 THEN Head(segs)
    ELSE Head(segs) \o <<"/">> \o joinSegments(Tail(segs))

\* path.normalize (POSIX)
normalize(p) ==
    IF p = <<>> THEN <<".">>
    ELSE LET absolute == Head(p) = "/"
             trailing == p[Len(p)] = "/"
             inner == joinSegments(collapse(segmentsOf(p), <<>>, absolute))
             closed == IF inner = <<>>
                       THEN (IF absolute THEN <<>>
                             ELSE IF trailing THEN <<".", "/">> ELSE <<".">>)
                       ELSE IF trailing THEN inner \o <<"/">> ELSE inner
         IN IF absolute THEN <<"/">> \o closed ELSE closed

RECURSIVE stripLeadingDots(_)
\* .replace(/^(\.\.[/\\])+/, "")
stripLeadingDots(p) ==
    IF Len(p) >= 2 /\ p[1] = ".." /\ p[2] \in {"/", Backslash}
    THEN stripLeadingDots(SubSeq(p, 3, Len(p)))
    ELSE p

\* path.join(a, b)
pathJoin(a, b) == normalize(IF b = <<>> THEN a ELSE a \o <<"/">> \o b)

\* path.resolve of an absolute path: normalized, without a trailing separator
pathResolve(p) ==
    LET n == normalize(p)
    IN IF Len(n) > 1 /\ n[Len(n)] = "/" THEN SubSeq(n, 1, Len(n) - 1) ELSE n

\* path.extname
extname(p) ==
    IF p[Len(p)] = "index.html" THEN ".html"
    ELSE IF p[Len(p)] = "app.js" THEN ".js"
    ELSE IF p[Len(p)] = "secret.txt" THEN ".txt"
    ELSE ""

\* what fs.readFile gives for a path
fileAt(p, index) ==
    IF p \in DiskFiles(index) THEN [readable |-> TRUE, ext |-> extname(p), data |-> <<"text of">> \o p]
    ELSE [readable |-> FALSE, ext |-> extname(p), data |-> <<>>]

NoLoader == [configured |-> FALSE] @@ Returned(FALSE, TRUE, EmptyMap)

\* lines 156-197 with the path put together as given, without line 172
handleRequestAsGiven(url, index) ==
    LET filePath == cutAt(cutAt(IF url = <<"/">> \/ url = <<>> THEN <<"/", "index.html">> ELSE url,
                                "?"), "#")
        absolutePath == pathJoin(DistPath, filePath)
    IN  IF ~startsWith(pathResolve(absolutePath), pathResolve(DistPath))
        THEN [status |-> 404, body |-> <<"404 Not Found">>, path |-> <<>>]
        ELSE IF absolutePath \notin DiskFiles(index)
        THEN [path |-> IndexPath] @@ serveFile(fileAt(IndexPath, index), ".html", NoLoader)
        ELSE [path |-> absolutePath]
                 @@ serveFile(fileAt(absolutePath, index), extname(absolutePath), NoLoader)

\* WebappService.handleRequest(req, res) and the serveFile it ends in: the
\* response and the path of the file read for it
handleRequest(url, index) ==
    LET filePath == stripLeadingDots(normalize(
                        cutAt(cutAt(IF url = <<"/">> \/ url = <<>> THEN <<"/", "index.html">>
                                    ELSE url, "?"), "#")))
        absolutePath == pathJoin(DistPath, filePath)
    IN  IF ~startsWith(pathResolve(absolutePath), pathResolve(DistPath))
        THEN [status |-> 404, body |-> <<"404 Not Found">>, path |-> <<>>]
        ELSE IF absolutePath \notin DiskFiles(index)
        THEN [path |-> IndexPath] @@ serveFile(fileAt(IndexPath, index), ".html", NoLoader)
        ELSE [path |-> absolutePath]
                 @@ serveFile(fileAt(absolutePath, index), extname(absolutePath), NoLoader)

\* a request is in flight
InitStatic ==
    /\ artifactsDir = [exists |-> FALSE, entries |-> <<>>]
    /\ sourceFile = "missing"
    /\ buildInfoFile = "missing"
    /\ ignition = NoIgnition
    /\ compiledArtifacts = <<>>
    /\ pendingTxs = EmptyMap
    /\ trackedDeployments = EmptyMap
    /\ heap = EmptyMap
    /\ hasLoggedArtifacts = FALSE
    /\ foundLogs = 0
    /\ returned = EmptyMap
    /\ lastSend = NoSend
    /\ request = NoRequest
    /\ PluginLoaded /\ portBusy = FALSE
    /\ last \in {[op |-> "request", url |-> u, index |-> i] :
                    u \in Urls, i \in {"present", "missing"}}

NextStatic ==
    /\ last.op = "request"
    /\ last' = [op |-> "response", url |-> last.url, index |-> last.index]
                   @@ handleRequest(last.url, last.index)
    /\ UNCHANGED <<plugin, request, lastSend, disk, compiledArtifacts, pendingTxs,
                   trackedDeployments, heap, hasLoggedArtifacts, foundLogs, returned>>

SpecStatic == InitStatic /\ [][NextStatic]_vars

\* the path is that of a file of the dist directory
InsideDist(p) == startsWith(p, DistPath \o <<"/">>) /\ \A i \in 1..Len(p) : p[i] # ".."

\* C37: every request is answered with status 200 and the text of a regular
\* file inside the dist directory, or with status 404 or 500 and no file;
\* no URL, with "../" sequences, a query string or a fragment, is answered
\* with a file outside the dist directory.
C37_ServesOnlyDistFiles ==
    last.op = "response" =>
        /\ last.status \in {200, 404, 500}
        /\ last.status = 200 =>
              /\ InsideDist(last.path)
              /\ last.path \in DiskFiles(last.index)
              /\ last.body = <<"text of">> \o last.path
        /\ last.status # 200 =>
              \A p \in DiskFiles(last.index) : last.body # <<"text of">> \o p

\* a URL with ".." in it was answered with a file of dist that is not the
\* index page
C37_Witness ==
    /\ last.op = "response"
    /\ \E i \in 1..Len(last.url) : last.url[i] = ".."
    /\ last.status = 200
    /\ last.path = DistPath \o <<"/", "app.js">>

(***************************************************************************)
(* Claims about the URL the server object reports.                         *)
(***************************************************************************)
\* OpenscanServer.getWebappUrl()
getWebappUrl ==
    IF webappService # "null" THEN JStr(<<"http://localhost:3030">>) ELSE JNull

\* a call of listen() has failed: startWebapp threw after it built the server object
ListenFailed ==
    /\ webappServer = "server"
    /\ \E h \in Hooks : pc[h] = "done" /\ result[h] = "error"

\* C38: getWebappUrl() returns the URL only while the http server is up (it
\* listens, or is closing inside stop()), and null otherwise: before listen(),
\* after stop() is done and after a listen() that failed.
C38_UrlOnlyWhileRunning ==
    /\ getWebappUrl # JNull => server \in {"listening", "closing"}
    /\ ListenFailed => getWebappUrl = JNull

====
